---- MODULE Spec2Model ----
(***************************************************************************)
(* Resilient external-data layer of caltrain-commuter-app:                 *)
(*   - CircuitBreaker          (src/lib/utils.ts)                          *)
(*   - retryWithBackoff        (src/lib/utils.ts)                          *)
(*   - EnhancedCache           (src/lib/utils.ts)                          *)
(*   - MemoryCache             (src/lib/nba-schedule.ts)                   *)
(*   - fetchWithRetry          (src/lib/error-handling.ts)                 *)
(*   - resilientFetch          (src/lib/utils.ts): cache, breaker, retry   *)
(*   - fetchTripUpdates, getStopDelay, getTripDelay: the GTFS-Realtime     *)
(*     utilities in src/lib/error-handling.ts                              *)
(* Each component has its own specification over the shared variables; the *)
(* variables of the other components stay at their initial values.         *)
(***************************************************************************)
EXTENDS Integers, Sequences, FiniteSets, Bags, TLC

\* ---------------------------------------------------------------- bounds
MaxTime == 1             \* Date.now() ranges over 0..MaxTime
MaxCalls == 6            \* calls of CircuitBreaker.execute in one behaviour
MaxThreshold == 2        \* failureThreshold ranges over 1..MaxThreshold
MaxResetTimeout == 1     \* resetTimeoutMs ranges over 0..MaxResetTimeout
MaxRetriesBound == 3     \* config.maxRetries ranges over 0..MaxRetriesBound
MaxInflight == 2         \* fetcher() calls of a cache in flight at once
MaxFetches == 3          \* calls of resilientFetch in one behaviour
MaxStops == 3            \* stop-time updates of one trip update

\* ---------------------------------------------------------------- inputs
Keys == {"k1", "k2"}              \* cache keys
Values == {1, 2}                  \* what a fetcher resolves to
TtlChoices == {0, 1}              \* ttl / ttlMs
StaleWindowChoices == {0, 1}      \* CacheOptions.staleWhileRevalidate (0: not set)
StaleMsChoices == {0, 1, 2}       \* CacheConfig.staleWhileRevalidateMs (0: not set)
MaxSizeChoices == {1, 2}          \* maxSize

VARIABLES
  now,               \* Date.now()
  cb,                \* the CircuitBreaker instance (fields and config)
  cbInflight,        \* operations awaited in execute(), by breaker state at admission
  cbStarted,         \* number of execute() calls made so far
  cbLast,            \* the last step of the breaker: what was called and what it did
  closedFailStreak,  \* failures of calls admitted while Closed, since the last success
  halfOpenStreak,    \* successes recorded while HalfOpen, since the last failure
  tripped,           \* the streak reached failureThreshold and no call was admitted since
  rt,                \* one call of retryWithBackoff: position, loop variables, effects
  rtAllRetryable,    \* every attempt so far failed with a retryable error
  mc,                \* the MemoryCache instance: cache, accessOrder, maxSize
  mcOptions,         \* the CacheOptions the callers pass for this cache
  mcTasks,           \* fetcher() calls in flight, per key and kind
  mcLast,            \* the last step of the MemoryCache
  ec,                \* the EnhancedCache instance: cache, revalidationPromises, config
  ecTasks,           \* fetcher() calls in flight, per key and kind
  ecLast,            \* the last step of the EnhancedCache
  ecAccess,          \* the keys held, by the time of their last read or write
  ecOrder,           \* history: the fetcher() calls in flight, in the order started
  fw,                \* one call of fetchWithRetry: position, loop variables, effects
  circuitBreakers,   \* the Map of circuit breakers by name
  apiCaches,         \* the Map of EnhancedCaches by name
  rfCalls,           \* the guarded network calls in flight (a bag)
  rfLast,            \* the last step of resilientFetch
  rfFailStreak,      \* per context: guarded calls failed since the last success
  rfStarted,         \* number of resilientFetch calls made so far
  gt                 \* a trip-update list, the call made on it and its result

cbVars == <<cb, cbInflight, cbStarted, cbLast, closedFailStreak, halfOpenStreak, tripped>>
rtVars == <<rt, rtAllRetryable>>
mcVars == <<mc, mcOptions, mcTasks, mcLast>>
ecVars == <<ec, ecTasks, ecLast, ecAccess, ecOrder>>
fwVars == <<fw>>
rfVars == <<circuitBreakers, apiCaches, rfCalls, rfLast, rfFailStreak, rfStarted>>
gtVars == <<gt>>
vars == <<now, cbVars, rtVars, mcVars, ecVars, fwVars, rfVars, gtVars>>

\* ------------------------------------------------------- CircuitBreaker
CircuitBreakerState == {"closed", "open", "half_open"}

\* private fields of a freshly constructed breaker
NewCircuitBreaker(config) ==
  [state |-> "closed", failures |-> 0, lastFailureTime |-> 0,
   successCount |-> 0, config |-> config]

\* a guard whose rejection restarts the reset timeout
executeGuard_RejectionRestartsTimeout(b, t) ==
  IF b.state = "open"
  THEN IF t - b.lastFailureTime > b.config.resetTimeoutMs
       THEN [cb |-> [b EXCEPT !.state = "half_open", !.successCount = 0],
             admitted |-> TRUE, events |-> <<"half_open">>]
       ELSE [cb |-> [b EXCEPT !.lastFailureTime = t],
             admitted |-> FALSE, events |-> <<"rejected">>]
  ELSE [cb |-> b, admitted |-> TRUE, events |-> <<>>]

\* a guard that performs the transition to HalfOpen for every trial call
executeGuard_EveryTrialTransitions(b, t) ==
  IF b.state = "open" \/ b.state = "half_open"
  THEN IF t - b.lastFailureTime > b.config.resetTimeoutMs
       THEN [cb |-> [b EXCEPT !.state = "half_open", !.successCount = 0],
             admitted |-> TRUE, events |-> <<"half_open">>]
       ELSE [cb |-> b, admitted |-> b.state = "half_open",
             events |-> IF b.state = "open" THEN <<"rejected">> ELSE <<>>]
  ELSE [cb |-> b, admitted |-> TRUE, events |-> <<>>]

\* the guard of execute(): the breaker after it, whether the operation is
\* invoked, and the events given to circuitBreakerCounter
executeGuard(b, t) ==
  IF b.state = "open"
  THEN IF t - b.lastFailureTime > b.config.resetTimeoutMs
       THEN [cb |-> [b EXCEPT !.state = "half_open", !.successCount = 0],
             admitted |-> TRUE, events |-> <<"half_open">>]
       ELSE [cb |-> b, admitted |-> FALSE, events |-> <<"rejected">>]
  ELSE [cb |-> b, admitted |-> TRUE, events |-> <<>>]

\* onSuccess closing only after a fourth success
onSuccess_FourToClose(b) ==
  LET b1 == [b EXCEPT !.failures = 0] IN
  IF b1.state = "half_open"
  THEN LET b2 == [b1 EXCEPT !.successCount = @ + 1] IN
       IF b2.successCount > 3
       THEN [cb |-> [b2 EXCEPT !.state = "closed"], events |-> <<"closed">>]
       ELSE [cb |-> b2, events |-> <<>>]
  ELSE [cb |-> b1, events |-> <<>>]

onSuccess(b) ==
  LET b1 == [b EXCEPT !.failures = 0] IN
  IF b1.state = "half_open"
  THEN LET b2 == [b1 EXCEPT !.successCount = @ + 1] IN
       IF b2.successCount >= 3
       THEN [cb |-> [b2 EXCEPT !.state = "closed"], events |-> <<"closed">>]
       ELSE [cb |-> b2, events |-> <<>>]
  ELSE [cb |-> b1, events |-> <<>>]

\* onFailure opening only above the threshold
onFailure_AboveThreshold(b, t) ==
  LET b1 == [b EXCEPT !.failures = @ + 1, !.lastFailureTime = t] IN
  IF b1.failures > b1.config.failureThreshold
  THEN [cb |-> [b1 EXCEPT !.state = "open"], events |-> <<"opened">>]
  ELSE [cb |-> b1, events |-> <<>>]

onFailure(b, t) ==
  LET b1 == [b EXCEPT !.failures = @ + 1, !.lastFailureTime = t] IN
  IF b1.failures >= b1.config.failureThreshold
  THEN [cb |-> [b1 EXCEPT !.state = "open"], events |-> <<"opened">>]
  ELSE [cb |-> b1, events |-> <<>>]

CBConfigs ==
  [failureThreshold : 1..MaxThreshold, resetTimeoutMs : 0..MaxResetTimeout]

NoInflight == [s \in CircuitBreakerState |-> 0]

CBIdle == [op |-> "none", pre |-> NewCircuitBreaker([failureThreshold |-> 1, resetTimeoutMs |-> 0]),
           at |-> 0, admittedIn |-> "closed", admitted |-> FALSE, events |-> <<>>,
           inflightPre |-> NoInflight]

CBFresh ==
  /\ cbInflight = NoInflight
  /\ cbStarted = 0
  /\ cbLast = CBIdle
  /\ closedFailStreak = 0
  /\ halfOpenStreak = 0
  /\ tripped = FALSE

CBInit ==
  /\ cb \in {NewCircuitBreaker(c) : c \in CBConfigs}
  /\ CBFresh

CBParked ==
  /\ cb = CBIdle.pre
  /\ CBFresh

\* execute(operation) up to `await operation()`
CBExecute ==
  /\ cbStarted < MaxCalls
  /\ LET r == executeGuard(cb, now) IN
       /\ cb' = r.cb
       /\ cbStarted' = cbStarted + 1
       /\ cbInflight' = IF r.admitted
                        THEN [cbInflight EXCEPT ![r.cb.state] = @ + 1]
                        ELSE cbInflight
       /\ cbLast' = [op |-> "execute", pre |-> cb, at |-> now,
                     admittedIn |-> r.cb.state, admitted |-> r.admitted,
                     events |-> r.events, inflightPre |-> cbInflight]
       /\ tripped' = IF r.admitted THEN FALSE ELSE tripped
  /\ UNCHANGED <<now, closedFailStreak, halfOpenStreak, rtVars, mcVars, ecVars, fwVars, rfVars, gtVars>>

\* the awaited operation resolves: onSuccess(), return result
CBSucceed(s) ==
  /\ cbInflight[s] > 0
  /\ LET r == onSuccess(cb) IN
       /\ cb' = r.cb
       /\ cbLast' = [op |-> "succeed", pre |-> cb, at |-> now,
                     admittedIn |-> s, admitted |-> TRUE, events |-> r.events,
                     inflightPre |-> cbInflight]
  /\ cbInflight' = [cbInflight EXCEPT ![s] = @ - 1]
  /\ closedFailStreak' = 0
  /\ halfOpenStreak' = IF cb.state = "half_open" THEN halfOpenStreak + 1 ELSE 0
  /\ UNCHANGED <<now, cbStarted, tripped, rtVars, mcVars, ecVars, fwVars, rfVars, gtVars>>

\* the awaited operation rejects: onFailure(), rethrow
CBFail(s) ==
  /\ cbInflight[s] > 0
  /\ LET r == onFailure(cb, now) IN
       /\ cb' = r.cb
       /\ cbLast' = [op |-> "fail", pre |-> cb, at |-> now,
                     admittedIn |-> s, admitted |-> TRUE, events |-> r.events,
                     inflightPre |-> cbInflight]
  /\ cbInflight' = [cbInflight EXCEPT ![s] = @ - 1]
  /\ closedFailStreak' = IF s = "closed" THEN closedFailStreak + 1 ELSE closedFailStreak
  /\ halfOpenStreak' = 0
  /\ tripped' = (tripped \/ (s = "closed" /\ closedFailStreak + 1 >= cb.config.failureThreshold))
  /\ UNCHANGED <<now, cbStarted, rtVars, mcVars, ecVars, fwVars, rfVars, gtVars>>

\* time passes
Tick ==
  /\ now < MaxTime
  /\ now' = now + 1

CBTick == Tick /\ UNCHANGED <<cbVars, rtVars, mcVars, ecVars, fwVars, rfVars, gtVars>>

\* ----------------------------------------------------- retryWithBackoff
\* An error is the attempt that raised it, its `status` field (0: the error
\* has no numeric status) and the error codes its message contains.
NoStatus == 0
ErrorStatuses == {NoStatus, 404, 429, 503}
ErrorMessages == {{}, {"ECONNRESET"}, {"ETIMEDOUT"}}
NoError == [attempt |-> 0, status |-> NoStatus, codes |-> {}]

\* DEFAULT_RETRY_CONFIG.retryableStatusCodes / retryableErrors
RetryableStatusCodes == {429, 502, 503, 504}
RetryableErrors == {"ECONNRESET", "ENOTFOUND", "ECONNREFUSED", "ETIMEDOUT"}

isRetryableError(error, config) ==
  IF error.status # NoStatus
  THEN error.status \in config.retryableStatusCodes
  ELSE \E retryableError \in config.retryableErrors : retryableError \in error.codes

RetryConfigs ==
  [maxRetries : 0..MaxRetriesBound,
   retryableStatusCodes : {RetryableStatusCodes},
   retryableErrors : {RetryableErrors}]

\* catch block that retries whatever the error is
retryCatch_RetryAll(r, error) ==
  LET r1 == [r EXCEPT !.lastError = error] IN
  IF r1.attempt = r1.config.maxRetries
  THEN [r1 EXCEPT !.pc = "thrown", !.thrown = r1.lastError]
  ELSE [r1 EXCEPT !.pc = "sleep", !.retryEvents = @ + 1, !.sleeps = @ + 1]

\* catch block that keeps the first error instead of the latest
retryCatch_KeepFirst(r, error) ==
  LET lastError == IF r.lastError = NoError THEN error ELSE r.lastError
      r1 == [r EXCEPT !.lastError = lastError] IN
  IF r1.attempt = r1.config.maxRetries
  THEN [r1 EXCEPT !.pc = "thrown", !.thrown = lastError]
  ELSE IF ~isRetryableError(error, r1.config)
       THEN [r1 EXCEPT !.pc = "thrown", !.thrown = error]
       ELSE [r1 EXCEPT !.pc = "sleep", !.retryEvents = @ + 1, !.sleeps = @ + 1]

\* catch block that tests retryability before the last-attempt test, so a
\* retryable failure of the last attempt is announced and slept on as well
retryCatch_SleepsAfterLast(r, error) ==
  LET r1 == [r EXCEPT !.lastError = error] IN
  IF ~isRetryableError(error, r1.config)
  THEN [r1 EXCEPT !.pc = "thrown", !.thrown = error]
  ELSE [r1 EXCEPT !.pc = "sleep", !.retryEvents = @ + 1, !.sleeps = @ + 1]

\* the catch block of the loop body, entered with the error the operation
\* raised in iteration r.attempt
retryCatch(r, error) ==
  LET r1 == [r EXCEPT !.lastError = error] IN
  IF r1.attempt = r1.config.maxRetries
  THEN [r1 EXCEPT !.pc = "thrown", !.thrown = r1.lastError]
  ELSE IF ~isRetryableError(error, r1.config)
       THEN [r1 EXCEPT !.pc = "thrown", !.thrown = error]
       ELSE [r1 EXCEPT !.pc = "sleep", !.retryEvents = @ + 1, !.sleeps = @ + 1]

NewRetry(config) ==
  [pc |-> "attempt", attempt |-> 0, invocations |-> 0, sleeps |-> 0,
   retryEvents |-> 0, lastError |-> NoError, thrown |-> NoError, config |-> config]

RTParked ==
  /\ rt = [NewRetry([maxRetries |-> 0, retryableStatusCodes |-> {}, retryableErrors |-> {}])
            EXCEPT !.pc = "parked"]
  /\ rtAllRetryable = TRUE

RTInit ==
  /\ rt \in {NewRetry(c) : c \in RetryConfigs}
  /\ rtAllRetryable = TRUE

\* `return await operation()` with an operation that rejects
RetryAttemptFails(status, codes) ==
  /\ rt.pc = "attempt"
  /\ LET error == [attempt |-> rt.invocations + 1, status |-> status, codes |-> codes] IN
       /\ rt' = retryCatch([rt EXCEPT !.invocations = @ + 1], error)
       /\ rtAllRetryable' = (rtAllRetryable /\ isRetryableError(error, rt.config))
  /\ UNCHANGED <<now, cbVars, mcVars, ecVars, fwVars, rfVars, gtVars>>

\* `return await operation()` with an operation that resolves
RetryAttemptSucceeds ==
  /\ rt.pc = "attempt"
  /\ rt' = [rt EXCEPT !.invocations = @ + 1, !.pc = "returned"]
  /\ rtAllRetryable' = FALSE
  /\ UNCHANGED <<now, cbVars, mcVars, ecVars, fwVars, rfVars, gtVars>>

\* `await sleep(delay)` returns; attempt++ and the loop test
retryResume(r) ==
  [r EXCEPT !.attempt = @ + 1,
            !.pc = IF r.attempt + 1 <= r.config.maxRetries THEN "attempt" ELSE "thrown",
            !.thrown = IF r.attempt + 1 <= r.config.maxRetries THEN @ ELSE r.lastError]

RetrySleepDone ==
  /\ rt.pc = "sleep"
  /\ rt' = retryResume(rt)
  /\ UNCHANGED <<now, cbVars, mcVars, ecVars, rtAllRetryable, fwVars, rfVars, gtVars>>

RetryTick == Tick /\ UNCHANGED <<cbVars, rtVars, mcVars, ecVars, fwVars, gtVars, rfVars>> /\ rt.pc \in {"attempt", "sleep"}

\* ---------------------------------------------------------- MemoryCache
\* A CacheEntry; refreshPromise tells whether the field is set.
NoEntry ==
  [present |-> FALSE, data |-> 0, timestamp |-> 0, ttl |-> 0,
   staleWhileRevalidate |-> 0, refreshPromise |-> FALSE]

NewEntry(data, t, options) ==
  [present |-> TRUE, data |-> data, timestamp |-> t, ttl |-> options.ttl,
   staleWhileRevalidate |-> options.staleWhileRevalidate, refreshPromise |-> FALSE]

CacheSize(cache) == Cardinality({k \in Keys : cache[k].present})

\* accessOrder holds the keys by increasing access number: ++accessCounter
\* gives every access a number above all the numbers held, so the key
\* accessed moves to the end.
Touch(order, key) == Append(SelectSeq(order, LAMBDA k : k # key), key)
Forget(order, key) == SelectSeq(order, LAMBDA k : k # key)

NewMemoryCache(maxSize) ==
  [cache |-> [k \in Keys |-> NoEntry], accessOrder |-> <<>>, maxSize |-> maxSize]

evictLRU(m) ==
  IF m.accessOrder = <<>>
  THEN m
  ELSE LET oldestKey == Head(m.accessOrder) IN
       [m EXCEPT !.cache[oldestKey] = NoEntry, !.accessOrder = Tail(@)]

\* MemoryCache.set
mcSet(m, key, data, options, t) ==
  LET m1 == IF CacheSize(m.cache) >= m.maxSize /\ ~m.cache[key].present
            THEN evictLRU(m) ELSE m IN
  [m1 EXCEPT !.cache[key] = NewEntry(data, t, options),
             !.accessOrder = Touch(@, key)]

isStale(entry, t) == t - entry.timestamp > entry.ttl

\* isExpired without the stale-while-revalidate window
isExpired_NoWindow(entry, t) == isStale(entry, t)

isExpired(entry, t) ==
  IF entry.staleWhileRevalidate # 0
  THEN t - entry.timestamp > entry.ttl + entry.staleWhileRevalidate
  ELSE isStale(entry, t)

\* get() serving an expired entry like a stale one
mcGetBranch_ServeExpired(entry, t) ==
  IF ~entry.present THEN "miss"
  ELSE IF ~isStale(entry, t) THEN "fresh"
  ELSE "stale"

\* the branch get() takes for the entry it found
mcGetBranch(entry, t) ==
  IF ~entry.present THEN "miss"
  ELSE IF ~isStale(entry, t) THEN "fresh"
  ELSE IF isExpired(entry, t) THEN "expired"
  ELSE "stale"

\* fetcher() calls in flight: "load" is awaited by its get(); a refresh was
\* started by get() on a stale entry and holds that entry object:
\* "refresh" while the object is the one stored under the key, "orphan"
\* once the key's entry was replaced or removed.
TaskKinds == {"load", "refresh", "orphan"}
NoTasks == [k \in Keys, kind \in TaskKinds |-> 0]
TasksOf(tasks, k) == tasks[k, "load"] + tasks[k, "refresh"] + tasks[k, "orphan"]
CanStart(tasks) == TasksOf(tasks, "k1") + TasksOf(tasks, "k2") < MaxInflight
Started(tasks, key, kind) == [tasks EXCEPT ![key, kind] = @ + 1]
Finished(tasks, key, kind) == [tasks EXCEPT ![key, kind] = @ - 1]
RefreshesInFlight(tasks, key) == tasks[key, "refresh"] + tasks[key, "orphan"]

\* removing an entry would cancel the refreshes started on it
Orphaned_Cancels(tasks, old, new) ==
  [k \in Keys, kind \in TaskKinds |->
     IF old[k] = new[k] THEN tasks[k, kind]
     ELSE IF kind = "refresh" THEN 0
     ELSE tasks[k, kind]]

\* the refreshes whose entry object is no longer the stored one become orphans
Orphaned(tasks, old, new) ==
  [k \in Keys, kind \in TaskKinds |->
     IF old[k] = new[k] THEN tasks[k, kind]
     ELSE IF kind = "refresh" THEN 0
     ELSE IF kind = "orphan" THEN tasks[k, "orphan"] + tasks[k, "refresh"]
     ELSE tasks[k, kind]]

MCOptions == [ttl : TtlChoices, staleWhileRevalidate : StaleWindowChoices]

\* what a step did: the operation, its key, the value it returned or stored,
\* the branch of get()/getSync() taken and the fetcher() call it started
MCStep(op, key, value, branch, started) ==
  [op |-> op, key |-> key, value |-> value, branch |-> branch, started |-> started]

MCNoStep == MCStep("none", "k1", 0, "none", "none")

\* A component that is not part of the scenario explored is parked: it is
\* given no capacity and none of its operations is called.
MCActive == mc.maxSize > 0

MCParked ==
  /\ mc = NewMemoryCache(0)
  /\ mcOptions = [ttl |-> 0, staleWhileRevalidate |-> 0]
  /\ mcTasks = NoTasks
  /\ mcLast = MCNoStep

MCInit ==
  /\ mc \in {NewMemoryCache(n) : n \in MaxSizeChoices}
  /\ mcOptions \in MCOptions
  /\ mcTasks = NoTasks
  /\ mcLast = MCNoStep

\* get(key, fetcher, options) up to its return or its `await fetcher()`
MCGet(key) ==
  LET entry == mc.cache[key]
      branch == mcGetBranch(entry, now)
      m1 == [mc EXCEPT !.accessOrder = Touch(@, key)]
  IN
  /\ MCActive
  /\ \/ /\ branch \in {"miss", "expired"}
        /\ CanStart(mcTasks)
        /\ mc' = m1
        /\ mcTasks' = Started(mcTasks, key, "load")
        /\ mcLast' = MCStep("get", key, 0, branch, "load")
     \/ /\ branch = "fresh"
        /\ mc' = m1
        /\ mcTasks' = mcTasks
        /\ mcLast' = MCStep("get", key, entry.data, branch, "none")
     \/ /\ branch = "stale"
        /\ ~entry.refreshPromise
        /\ CanStart(mcTasks)
        /\ mc' = [m1 EXCEPT !.cache[key].refreshPromise = TRUE]
        /\ mcTasks' = Started(mcTasks, key, "refresh")
        /\ mcLast' = MCStep("get", key, entry.data, branch, "refresh")
     \/ /\ branch = "stale"
        /\ entry.refreshPromise
        /\ mc' = m1
        /\ mcTasks' = mcTasks
        /\ mcLast' = MCStep("get", key, entry.data, branch, "none")
  /\ UNCHANGED <<now, cbVars, rtVars, ecVars, mcOptions, fwVars, rfVars, gtVars>>

\* the awaited fetcher() of a get() resolves: set(key, data, options); return data
MCLoadResolves(key, data) ==
  /\ MCActive
  /\ mcTasks[key, "load"] > 0
  /\ mc' = mcSet(mc, key, data, mcOptions, now)
  /\ mcTasks' = Orphaned(Finished(mcTasks, key, "load"), mc.cache, mc'.cache)
  /\ mcLast' = MCStep("loadResolved", key, data, "none", "none")
  /\ UNCHANGED <<now, cbVars, rtVars, ecVars, mcOptions, fwVars, rfVars, gtVars>>

\* a get() that caches the failure of its fetcher as an empty value
MCLoadRejects_CachesFailure(key) ==
  /\ MCActive
  /\ mcTasks[key, "load"] > 0
  /\ mc' = mcSet(mc, key, 0, mcOptions, now)
  /\ mcTasks' = Orphaned(Finished(mcTasks, key, "load"), mc.cache, mc'.cache)
  /\ mcLast' = MCStep("loadRejected", key, 0, "none", "none")
  /\ UNCHANGED <<now, cbVars, rtVars, ecVars, mcOptions, fwVars, rfVars, gtVars>>

\* the awaited fetcher() of a get() rejects: get() rejects with its error
MCLoadRejects(key) ==
  /\ MCActive
  /\ mcTasks[key, "load"] > 0
  /\ mcTasks' = Finished(mcTasks, key, "load")
  /\ mcLast' = MCStep("loadRejected", key, 0, "none", "none")
  /\ UNCHANGED <<now, cbVars, rtVars, ecVars, mc, mcOptions, fwVars, rfVars, gtVars>>

\* the fetcher() of a background refresh resolves: .then(set)
MCRefreshResolves(key, kind, data) ==
  /\ MCActive
  /\ kind \in {"refresh", "orphan"}
  /\ mcTasks[key, kind] > 0
  /\ mc' = mcSet(mc, key, data, mcOptions, now)
  /\ mcTasks' = Orphaned(Finished(mcTasks, key, kind), mc.cache, mc'.cache)
  /\ mcLast' = MCStep("refreshResolved", key, data, kind, "none")
  /\ UNCHANGED <<now, cbVars, rtVars, ecVars, mcOptions, fwVars, rfVars, gtVars>>

\* a .catch handler that leaves the refreshPromise in place
mcRefreshCatch_KeepPromise(m, key, kind) == m

\* the .catch handler of a background refresh: it deletes the refreshPromise
\* of the entry object the refresh was started on, which is the stored entry
\* for a "refresh" and an object no longer in the cache for an "orphan"
mcRefreshCatch(m, key, kind) ==
  IF kind = "refresh"
  THEN [m EXCEPT !.cache[key].refreshPromise = FALSE]
  ELSE m

\* the fetcher() of a background refresh rejects: .catch, rethrow
MCRefreshRejects(key, kind) ==
  /\ MCActive
  /\ kind \in {"refresh", "orphan"}
  /\ mcTasks[key, kind] > 0
  /\ mc' = mcRefreshCatch(mc, key, kind)
  /\ mcTasks' = Finished(mcTasks, key, kind)
  /\ mcLast' = MCStep("refreshRejected", key, 0, kind, "none")
  /\ UNCHANGED <<now, cbVars, rtVars, ecVars, mcOptions, fwVars, rfVars, gtVars>>

\* set(key, data, options), as warmCache calls it
MCSet(key, data) ==
  /\ MCActive
  /\ mc' = mcSet(mc, key, data, mcOptions, now)
  /\ mcTasks' = Orphaned(mcTasks, mc.cache, mc'.cache)
  /\ mcLast' = MCStep("set", key, data, "none", "none")
  /\ UNCHANGED <<now, cbVars, rtVars, ecVars, mcOptions, fwVars, rfVars, gtVars>>

\* getSync that marks a stale entry as being refreshed, as get() does
mcGetSync_MarksRefresh(m, key, t) ==
  IF ~m.cache[key].present THEN m
  ELSE IF isExpired(m.cache[key], t)
       THEN [m EXCEPT !.cache[key] = NoEntry, !.accessOrder = Forget(@, key)]
       ELSE [m EXCEPT !.accessOrder = Touch(@, key),
                      !.cache[key].refreshPromise = @ \/ isStale(m.cache[key], t)]

\* getSync(key); has(key) is getSync(key) !== undefined
mcGetSync(m, key, t) ==
  IF ~m.cache[key].present THEN m
  ELSE IF isExpired(m.cache[key], t)
       THEN [m EXCEPT !.cache[key] = NoEntry, !.accessOrder = Forget(@, key)]
       ELSE [m EXCEPT !.accessOrder = Touch(@, key)]

MCGetSync(key) ==
  /\ MCActive
  /\ mc' = mcGetSync(mc, key, now)
  /\ mcTasks' = Orphaned(mcTasks, mc.cache, mc'.cache)
  /\ mcLast' = MCStep("getSync", key,
                      IF mc'.cache[key].present THEN mc.cache[key].data ELSE 0,
                      mcGetBranch(mc.cache[key], now), "none")
  /\ UNCHANGED <<now, cbVars, rtVars, ecVars, mcOptions, fwVars, rfVars, gtVars>>

MCHas(key) ==
  /\ MCActive
  /\ mc' = mcGetSync(mc, key, now)
  /\ mcTasks' = Orphaned(mcTasks, mc.cache, mc'.cache)
  /\ mcLast' = MCStep("has", key, IF mc'.cache[key].present THEN 1 ELSE 0,
                      mcGetBranch(mc.cache[key], now), "none")
  /\ UNCHANGED <<now, cbVars, rtVars, ecVars, mcOptions, fwVars, rfVars, gtVars>>

MCDelete(key) ==
  /\ MCActive
  /\ mc' = [mc EXCEPT !.cache[key] = NoEntry, !.accessOrder = Forget(@, key)]
  /\ mcTasks' = Orphaned(mcTasks, mc.cache, mc'.cache)
  /\ mcLast' = MCStep("delete", key, 0, "none", "none")
  /\ UNCHANGED <<now, cbVars, rtVars, ecVars, mcOptions, fwVars, rfVars, gtVars>>

MCClear ==
  /\ MCActive
  /\ mc' = [mc EXCEPT !.cache = [k \in Keys |-> NoEntry], !.accessOrder = <<>>]
  /\ mcTasks' = Orphaned(mcTasks, mc.cache, mc'.cache)
  /\ mcLast' = MCStep("clear", "k1", 0, "none", "none")
  /\ UNCHANGED <<now, cbVars, rtVars, ecVars, mcOptions, fwVars, rfVars, gtVars>>

MCTick ==
  /\ MCActive
  /\ Tick
  /\ mcLast' = MCStep("tick", "k1", 0, "none", "none")
  /\ UNCHANGED <<cbVars, rtVars, ecVars, mc, mcOptions, mcTasks, fwVars, rfVars, gtVars>>

\* -------------------------------------------------------- EnhancedCache
\* cache is the Map in insertion order, a sequence of [key, data, timestamp]
ECHas(cache, key) == \E i \in 1..Len(cache) : cache[i].key = key
ECIndex(cache, key) == CHOOSE i \in 1..Len(cache) : cache[i].key = key
ECEntry(cache, key) == cache[ECIndex(cache, key)]
KeysOf(cache) == {cache[i].key : i \in 1..Len(cache)}

\* Map.set: an existing key keeps its place, a new key goes last
MapSet(cache, entry) ==
  IF ECHas(cache, entry.key)
  THEN [cache EXCEPT ![ECIndex(cache, entry.key)] = entry]
  ELSE Append(cache, entry)

\* EnhancedCache.set
ecSet(e, key, data, t) ==
  LET kept == IF Len(e.cache) >= e.config.maxSize /\ e.cache # <<>>
              THEN Tail(e.cache) ELSE e.cache IN
  [e EXCEPT !.cache = MapSet(kept, [key |-> key, data |-> data, timestamp |-> t])]

\* the branch EnhancedCache.get takes
ecGetBranch(e, key, t) ==
  IF ECHas(e.cache, key) /\ t - ECEntry(e.cache, key).timestamp < e.config.ttlMs
  THEN "fresh"
  ELSE IF /\ ECHas(e.cache, key)
          /\ e.config.staleWhileRevalidateMs # 0
          /\ t - ECEntry(e.cache, key).timestamp < e.config.staleWhileRevalidateMs
       THEN "stale"
       ELSE "fetch"

ECConfigs ==
  [ttlMs : TtlChoices, staleWhileRevalidateMs : StaleMsChoices, maxSize : MaxSizeChoices]

NewEnhancedCache(config) ==
  [cache |-> <<>>, revalidationPromises |-> {}, config |-> config]

ECTaskKinds == {"fetch", "revalidate"}
ECNoTasks == [k \in Keys, kind \in ECTaskKinds |-> 0]
ECTasksOf(tasks, k) == tasks[k, "fetch"] + tasks[k, "revalidate"]
ECCanStart(tasks) == ECTasksOf(tasks, "k1") + ECTasksOf(tasks, "k2") < MaxInflight

\* the keys held by the time of their last access: the key accessed goes last
ECTouched(access, cache, key) ==
  SelectSeq(Touch(access, key), LAMBDA k : k \in KeysOf(cache))

ECStep(op, key, value, branch, started) ==
  [op |-> op, key |-> key, value |-> value, branch |-> branch, started |-> started]

\* The order in which the fetcher() calls in flight were started is not
\* recorded by the cache; it is kept as history where a property needs it
\* and is left alone everywhere else.
ECNoOrder == [inflight |-> <<>>, regressed |-> FALSE]

ECFresh ==
  /\ ecTasks = ECNoTasks
  /\ ecLast = ECStep("none", "k1", 0, "none", "none")
  /\ ecAccess = <<>>
  /\ ecOrder = ECNoOrder

ECActive == ec.config.maxSize > 0

ECParked ==
  /\ ec = NewEnhancedCache([ttlMs |-> 0, staleWhileRevalidateMs |-> 0, maxSize |-> 0])
  /\ ECFresh

ECInit ==
  /\ ec \in {NewEnhancedCache(c) : c \in ECConfigs}
  /\ ECFresh

\* get(key, fetcher) up to its return or its `await fetcher()`
ECGet(key) ==
  LET branch == ecGetBranch(ec, key, now) IN
  /\ ECActive
  /\ \/ /\ branch = "fresh"
        /\ ecLast' = ECStep("get", key, ECEntry(ec.cache, key).data, branch, "none")
        /\ ecAccess' = ECTouched(ecAccess, ec.cache, key)
        /\ UNCHANGED <<ec, ecTasks>>
     \/ /\ branch = "stale"
        /\ key \notin ec.revalidationPromises
        /\ ECCanStart(ecTasks)
        /\ ec' = [ec EXCEPT !.revalidationPromises = @ \cup {key}]
        /\ ecTasks' = [ecTasks EXCEPT ![key, "revalidate"] = @ + 1]
        /\ ecLast' = ECStep("get", key, ECEntry(ec.cache, key).data, branch, "revalidate")
        /\ ecAccess' = ECTouched(ecAccess, ec.cache, key)
     \/ /\ branch = "stale"
        /\ key \in ec.revalidationPromises
        /\ ecLast' = ECStep("get", key, ECEntry(ec.cache, key).data, branch, "none")
        /\ ecAccess' = ECTouched(ecAccess, ec.cache, key)
        /\ UNCHANGED <<ec, ecTasks>>
     \/ /\ branch = "fetch"
        /\ ECCanStart(ecTasks)
        /\ ecTasks' = [ecTasks EXCEPT ![key, "fetch"] = @ + 1]
        /\ ecLast' = ECStep("get", key, 0, branch, "fetch")
        /\ UNCHANGED <<ec, ecAccess>>
  /\ UNCHANGED <<now, cbVars, rtVars, mcVars, fwVars, rfVars, gtVars>>

\* fetchAndCache: the awaited fetcher() resolves; set(key, data); return data
ECFetchResolves(key, data) ==
  /\ ECActive
  /\ ecTasks[key, "fetch"] > 0
  /\ ec' = ecSet(ec, key, data, now)
  /\ ecTasks' = [ecTasks EXCEPT ![key, "fetch"] = @ - 1]
  /\ ecLast' = ECStep("fetchResolved", key, data, "none", "none")
  /\ ecAccess' = ECTouched(ecAccess, ec'.cache, key)
  /\ UNCHANGED <<now, cbVars, rtVars, mcVars, fwVars, rfVars, gtVars>>

\* fetchAndCache: the awaited fetcher() rejects; get() rejects
ECFetchRejects(key) ==
  /\ ECActive
  /\ ecTasks[key, "fetch"] > 0
  /\ ecTasks' = [ecTasks EXCEPT ![key, "fetch"] = @ - 1]
  /\ ecLast' = ECStep("fetchRejected", key, 0, "none", "none")
  /\ UNCHANGED <<now, cbVars, rtVars, mcVars, ec, ecAccess, fwVars, rfVars, gtVars>>

\* revalidateInBackground: fetcher() resolves; set(key, freshData); finally
ECRevalidateResolves(key, data) ==
  /\ ECActive
  /\ ecTasks[key, "revalidate"] > 0
  /\ ec' = [ecSet(ec, key, data, now) EXCEPT !.revalidationPromises = @ \ {key}]
  /\ ecTasks' = [ecTasks EXCEPT ![key, "revalidate"] = @ - 1]
  /\ ecLast' = ECStep("revalidateResolved", key, data, "none", "none")
  /\ ecAccess' = ECTouched(ecAccess, ec'.cache, key)
  /\ UNCHANGED <<now, cbVars, rtVars, mcVars, fwVars, rfVars, gtVars>>

\* revalidateInBackground without its finally block on the failure path
ECRevalidateRejects_KeepsMarker(key) ==
  /\ ECActive
  /\ ecTasks[key, "revalidate"] > 0
  /\ ec' = ec
  /\ ecTasks' = [ecTasks EXCEPT ![key, "revalidate"] = @ - 1]
  /\ ecLast' = ECStep("revalidateRejected", key, 0, "none", "none")
  /\ UNCHANGED <<now, cbVars, rtVars, mcVars, ecAccess, fwVars, rfVars, gtVars>>

\* revalidateInBackground: fetcher() rejects; log, rethrow; finally
ECRevalidateRejects(key) ==
  /\ ECActive
  /\ ecTasks[key, "revalidate"] > 0
  /\ ec' = [ec EXCEPT !.revalidationPromises = @ \ {key}]
  /\ ecTasks' = [ecTasks EXCEPT ![key, "revalidate"] = @ - 1]
  /\ ecLast' = ECStep("revalidateRejected", key, 0, "none", "none")
  /\ UNCHANGED <<now, cbVars, rtVars, mcVars, ecAccess, fwVars, rfVars, gtVars>>

ECClear ==
  /\ ECActive
  /\ ec' = [ec EXCEPT !.cache = <<>>, !.revalidationPromises = {}]
  /\ ecLast' = ECStep("clear", "k1", 0, "none", "none")
  /\ ecAccess' = <<>>
  /\ UNCHANGED <<now, cbVars, rtVars, mcVars, ecTasks, fwVars, rfVars, gtVars>>

ECTick ==
  /\ ECActive
  /\ Tick
  /\ ecLast' = ECStep("tick", "k1", 0, "none", "none")
  /\ UNCHANGED <<cbVars, rtVars, mcVars, ec, ecTasks, ecAccess, fwVars, rfVars, gtVars>>

\* ------------------------------------------------------- fetchWithRetry
\* What the transport does with one call: a response with its status, or an
\* exception (AbortError: the timeout fired; TypeError: a network error
\* whose message names fetch; Error: anything else).
FWStatuses == {200, 400, 429, 499, 500, 503}
FWExceptions == {"AbortError", "TypeError", "Error"}
FWResponseOf(status) == [status |-> status, exception |-> "none"]
FWExceptionOf(name) == [status |-> NoStatus, exception |-> name]

AppError(type, statusCode) == [name |-> "AppError", type |-> type, statusCode |-> statusCode]
NoAppError == [name |-> "none", type |-> "none", statusCode |-> NoStatus]

\* the locals of a call with config.retries = retries, at its first fetch()
NewFetch(retries) ==
  [pc |-> "fetch", attempt |-> 0, retries |-> retries, calls |-> 0, sleeps |-> 0,
   responses |-> <<>>, lastError |-> NoAppError, thrown |-> NoAppError, returned |-> NoStatus]

fwSleep(f) == [f EXCEPT !.pc = "sleep", !.sleeps = @ + 1]
fwThrow(f, error) == [f EXCEPT !.pc = "thrown", !.thrown = error]

\* the try block handling client errors like server errors
fwResponse_RetryClientErrors(f, status) ==
  IF status = 429
  THEN IF f.attempt < f.retries
       THEN fwSleep(f)
       ELSE fwThrow(f, AppError("RATE_LIMIT_ERROR", 429))
  ELSE IF ~(status >= 200 /\ status <= 299)
       THEN IF f.attempt < f.retries
            THEN fwSleep([f EXCEPT !.lastError = AppError("API_ERROR", status)])
            ELSE fwThrow(f, AppError("API_ERROR", status))
       ELSE [f EXCEPT !.pc = "returned", !.returned = status]

\* the try block giving up one attempt early
fwResponse_OneAttemptShort(f, status) ==
  IF status = 429
  THEN IF f.attempt + 1 < f.retries
       THEN fwSleep(f)
       ELSE fwThrow(f, AppError("RATE_LIMIT_ERROR", 429))
  ELSE IF ~(status >= 200 /\ status <= 299)
       THEN IF status >= 400 /\ status < 500 /\ status # 429
            THEN fwThrow(f, AppError("API_ERROR", status))
            ELSE IF f.attempt + 1 < f.retries
                 THEN fwSleep([f EXCEPT !.lastError = AppError("API_ERROR", status)])
                 ELSE fwThrow(f, AppError("API_ERROR", status))
       ELSE [f EXCEPT !.pc = "returned", !.returned = status]

\* the try block after `await fetch()` resolved with a response; an AppError
\* thrown here is rethrown unchanged by the catch block
fwResponse(f, status) ==
  IF status = 429
  THEN IF f.attempt < f.retries
       THEN fwSleep(f)
       ELSE fwThrow(f, AppError("RATE_LIMIT_ERROR", 429))
  ELSE IF ~(status >= 200 /\ status <= 299)
       THEN IF status >= 400 /\ status < 500 /\ status # 429
            THEN fwThrow(f, AppError("API_ERROR", status))
            ELSE IF f.attempt < f.retries
                 THEN fwSleep([f EXCEPT !.lastError = AppError("API_ERROR", status)])
                 ELSE fwThrow(f, AppError("API_ERROR", status))
       ELSE [f EXCEPT !.pc = "returned", !.returned = status]

\* the catch block for an exception of fetch() that is not an AppError
fwCatch(f, name) ==
  LET lastError == IF name = "AbortError" THEN AppError("TIMEOUT_ERROR", NoStatus)
                   ELSE IF name = "TypeError" THEN AppError("NETWORK_ERROR", NoStatus)
                   ELSE AppError("UNKNOWN_ERROR", NoStatus)
      f1 == [f EXCEPT !.lastError = lastError] IN
  IF f1.attempt < f1.retries THEN fwSleep(f1) ELSE fwThrow(f1, lastError)

FWParked == fw = [NewFetch(0) EXCEPT !.pc = "parked"]

FWInit == fw \in {NewFetch(retries) : retries \in 0..MaxRetriesBound}

\* `await fetch(url, ...)` resolves with a response
FWResponse(status) ==
  /\ fw.pc = "fetch"
  /\ fw' = fwResponse([fw EXCEPT !.calls = @ + 1,
                                 !.responses = Append(@, FWResponseOf(status))], status)
  /\ UNCHANGED <<now, cbVars, rtVars, mcVars, ecVars, rfVars, gtVars>>

\* `await fetch(url, ...)` rejects
FWException(name) ==
  /\ fw.pc = "fetch"
  /\ fw' = fwCatch([fw EXCEPT !.calls = @ + 1,
                              !.responses = Append(@, FWExceptionOf(name))], name)
  /\ UNCHANGED <<now, cbVars, rtVars, mcVars, ecVars, rfVars, gtVars>>

\* `await sleep(...)` returns; attempt++; continue
FWSleepDone ==
  /\ fw.pc = "sleep"
  /\ fw' = [fw EXCEPT !.attempt = @ + 1,
                      !.pc = IF fw.attempt + 1 <= fw.retries THEN "fetch" ELSE "thrown",
                      !.thrown = IF fw.attempt + 1 <= fw.retries THEN @
                                 ELSE IF fw.lastError # NoAppError THEN fw.lastError
                                 ELSE AppError("UNKNOWN_ERROR", NoStatus)]
  /\ UNCHANGED <<now, cbVars, rtVars, mcVars, ecVars, rfVars, gtVars>>

\* ------------------------------------------------------- resilientFetch
Contexts == {"c1"}                \* the `context` name the callers pass
NoKey == "none"                   \* options.cacheKey not given
CacheKeys == Keys \cup {NoKey}

\* the options callers pass (merged over the defaults): circuitBreakerConfig,
\* cacheConfig and retryConfig
RFRetryConfig(maxRetries) ==
  [maxRetries |-> maxRetries,
   retryableStatusCodes |-> RetryableStatusCodes,
   retryableErrors |-> RetryableErrors]
RFOptions ==
  {[circuitBreakerConfig |-> [failureThreshold |-> 1, resetTimeoutMs |-> 1],
    cacheConfig |-> [ttlMs |-> 1, staleWhileRevalidateMs |-> 0, maxSize |-> 2],
    retryConfig |-> RFRetryConfig(0)],
   [circuitBreakerConfig |-> [failureThreshold |-> 2, resetTimeoutMs |-> 0],
    cacheConfig |-> [ttlMs |-> 0, staleWhileRevalidateMs |-> 2, maxSize |-> 1],
    retryConfig |-> RFRetryConfig(1)]}
RFValues == {1}                   \* what the parser resolves to

\* what one transport call can fail with: the `HTTP <status>` error made of
\* a response that is not ok, carrying the response status
RFErrors ==
  {[status |-> 404, codes |-> {}],
   [status |-> 503, codes |-> {}]}

\* The Maps circuitBreakers and apiCaches: <<>> for a name that is not in
\* the Map, <<object>> for one that is.
NoObjects == [c \in Contexts |-> <<>>]

\* getCircuitBreaker creating a breaker on every call
getCircuitBreaker_AlwaysNew(breakers, name, config) ==
  [breakers EXCEPT ![name] = <<NewCircuitBreaker(config)>>]

\* the Map after getCircuitBreaker(name, config); the breaker returned is
\* the one under name
getCircuitBreaker(breakers, name, config) ==
  IF breakers[name] = <<>>
  THEN [breakers EXCEPT ![name] = <<NewCircuitBreaker(config)>>]
  ELSE breakers

\* the Map after getCache(name, config)
getCache(caches, name, config) ==
  IF caches[name] = <<>>
  THEN [caches EXCEPT ![name] = <<NewEnhancedCache(config)>>]
  ELSE caches

\* executeWithCircuitBreaker that runs the operation whatever the breaker says
executeWithCircuitBreaker_NoGuard(breakers, name, retryConfig, cbConfig, t) ==
  LET bs == getCircuitBreaker(breakers, name, cbConfig) IN
  [circuitBreakers |-> bs, admitted |-> TRUE, retry |-> NewRetry(retryConfig)]

\* executeWithCircuitBreaker up to the first `await fetch()`: the breaker is
\* looked up and execute() runs its guard; only an admitted call reaches
\* retryWithBackoff, whose first attempt then calls the transport
executeWithCircuitBreaker(breakers, name, retryConfig, cbConfig, t) ==
  LET bs == getCircuitBreaker(breakers, name, cbConfig)
      g == executeGuard(bs[name][1], t) IN
  [circuitBreakers |-> [bs EXCEPT ![name] = <<g.cb>>],
   admitted |-> g.admitted,
   retry |-> IF g.admitted THEN NewRetry(retryConfig)
             ELSE [NewRetry(retryConfig) EXCEPT !.pc = "not_called"]]

\* a guarded network call in flight: who started it and its retry loop
RFCallOf(context, cacheKey, kind, retry) ==
  [context |-> context, cacheKey |-> cacheKey, kind |-> kind, retry |-> retry]

RFNoBreakerConfig == [failureThreshold |-> 0, resetTimeoutMs |-> 0]
RFNoCacheConfig == [ttlMs |-> 0, staleWhileRevalidateMs |-> 0, maxSize |-> 0]
RFNoRetry == [NewRetry([maxRetries |-> 0, retryableStatusCodes |-> {}, retryableErrors |-> {}])
               EXCEPT !.pc = "none"]

\* what a step did
RFStep(op, context, cacheKey, branch, guard, outcome, value, cbConfig, cacheConfig, retry) ==
  [op |-> op, context |-> context, cacheKey |-> cacheKey, branch |-> branch,
   guard |-> guard, outcome |-> outcome, value |-> value,
   cbConfig |-> cbConfig, cacheConfig |-> cacheConfig, retry |-> retry]

RFIdle(op) ==
  RFStep(op, "c1", NoKey, "none", "none", "none", 0, RFNoBreakerConfig, RFNoCacheConfig, RFNoRetry)

NoFailStreak == [c \in Contexts |-> [n |-> 0, keys |-> {}]]

RFFresh ==
  /\ circuitBreakers = NoObjects
  /\ apiCaches = NoObjects
  /\ rfCalls = EmptyBag
  /\ rfFailStreak = NoFailStreak
  /\ rfStarted = 0

RFParked == RFFresh /\ rfLast = RFIdle("parked")
RFInit == RFFresh /\ rfLast = RFIdle("none")
RFActive == rfLast.op # "parked"

\* resilientFetch(url, options) up to its return, its throw or its first
\* `await fetch()`
RFCall(context, cacheKey, options) ==
  LET cbConfig == options.circuitBreakerConfig
      cacheConfig == options.cacheConfig
      retryConfig == options.retryConfig
      caches1 == IF cacheKey # NoKey THEN getCache(apiCaches, context, cacheConfig)
                 ELSE apiCaches
      branch == IF cacheKey = NoKey THEN "none"
                ELSE ecGetBranch(caches1[context][1], cacheKey, now)
      starts == \/ branch \in {"none", "fetch"}
                \/ /\ branch = "stale"
                   /\ cacheKey \notin caches1[context][1].revalidationPromises
      g == executeWithCircuitBreaker(circuitBreakers, context, retryConfig, cbConfig, now)
      kind == IF branch = "none" THEN "direct"
              ELSE IF branch = "fetch" THEN "fetch" ELSE "revalidate"
      value == IF branch \in {"fresh", "stale"}
               THEN ECEntry(caches1[context][1].cache, cacheKey).data ELSE 0
  IN
  /\ RFActive
  /\ rfStarted < MaxFetches
  /\ (starts /\ g.admitted) => BagCardinality(rfCalls) < MaxInflight
  /\ rfStarted' = rfStarted + 1
  /\ circuitBreakers' = IF starts THEN g.circuitBreakers ELSE circuitBreakers
  /\ rfCalls' = IF starts /\ g.admitted
                THEN rfCalls (+) SetToBag({RFCallOf(context, cacheKey, kind, g.retry)})
                ELSE rfCalls
  /\ apiCaches' = IF starts /\ g.admitted /\ kind = "revalidate"
                  THEN [caches1 EXCEPT ![context] =
                          <<[caches1[context][1] EXCEPT !.revalidationPromises = @ \cup {cacheKey}]>>]
                  ELSE caches1
  /\ rfLast' = RFStep("call", context, cacheKey, branch,
                      IF ~starts THEN "none" ELSE IF g.admitted THEN "admitted" ELSE "rejected",
                      IF branch \in {"fresh", "stale"} THEN "returned"
                      ELSE IF g.admitted THEN "pending" ELSE "circuit_open",
                      value, cbConfig, cacheConfig,
                      IF starts THEN g.retry ELSE RFNoRetry)
  /\ UNCHANGED <<now, cbVars, rtVars, mcVars, ecVars, fwVars, rfFailStreak, gtVars>>

\* the cache of a call's context after the guarded call ended
rfCacheAfter(caches, call, resolved, data, t) ==
  IF call.kind = "direct" THEN caches
  ELSE LET e == caches[call.context][1]
           e1 == IF resolved THEN ecSet(e, call.cacheKey, data, t) ELSE e
           e2 == IF call.kind = "revalidate"
                 THEN [e1 EXCEPT !.revalidationPromises = @ \ {call.cacheKey}] ELSE e1
       IN [caches EXCEPT ![call.context] = <<e2>>]

\* fetch() and the parser resolve: retryWithBackoff returns, execute() runs
\* onSuccess(), the cache stores the value
RFResolves(call, data) ==
  /\ RFActive
  /\ BagIn(call, rfCalls)
  /\ call.retry.pc = "attempt"
  /\ LET retry == [call.retry EXCEPT !.invocations = @ + 1, !.pc = "returned"] IN
       /\ rfCalls' = rfCalls (-) SetToBag({call})
       /\ circuitBreakers' = [circuitBreakers EXCEPT ![call.context] =
                                <<onSuccess(circuitBreakers[call.context][1]).cb>>]
       /\ apiCaches' = rfCacheAfter(apiCaches, call, TRUE, data, now)
       /\ rfFailStreak' = [rfFailStreak EXCEPT ![call.context] = [n |-> 0, keys |-> {}]]
       /\ rfLast' = RFStep("resolved", call.context, call.cacheKey, call.kind, "none",
                           "returned", data, RFNoBreakerConfig, RFNoCacheConfig, retry)
  /\ UNCHANGED <<now, cbVars, rtVars, mcVars, ecVars, fwVars, rfStarted, gtVars>>

\* a guarded call whose every failed attempt is recorded by the breaker
RFRejects_CountsEachAttempt(call, err) ==
  /\ RFActive
  /\ BagIn(call, rfCalls)
  /\ call.retry.pc = "attempt"
  /\ LET error == [attempt |-> call.retry.invocations + 1,
                   status |-> err.status, codes |-> err.codes]
         retry == retryCatch([call.retry EXCEPT !.invocations = @ + 1], error)
     IN
       /\ circuitBreakers' = [circuitBreakers EXCEPT ![call.context] =
                                <<onFailure(circuitBreakers[call.context][1], now).cb>>]
       /\ IF retry.pc = "sleep"
          THEN /\ rfCalls' = (rfCalls (-) SetToBag({call}))
                               (+) SetToBag({[call EXCEPT !.retry = retryResume(retry)]})
               /\ rfLast' = RFStep("rejected", call.context, call.cacheKey, call.kind, "none",
                                   "retrying", 0, RFNoBreakerConfig, RFNoCacheConfig, retry)
               /\ UNCHANGED <<apiCaches, rfFailStreak>>
          ELSE /\ rfCalls' = rfCalls (-) SetToBag({call})
               /\ apiCaches' = rfCacheAfter(apiCaches, call, FALSE, 0, now)
               /\ rfFailStreak' = [rfFailStreak EXCEPT ![call.context] =
                                     [n |-> @.n + 1, keys |-> @.keys \cup {call.cacheKey}]]
               /\ rfLast' = RFStep("rejected", call.context, call.cacheKey, call.kind, "none",
                                   "thrown", 0, RFNoBreakerConfig, RFNoCacheConfig, retry)
  /\ UNCHANGED <<now, cbVars, rtVars, mcVars, ecVars, fwVars, rfStarted, gtVars>>

\* fetch() resolves with a response that is not ok: the catch block of
\* retryWithBackoff. When it retries, the call sleeps and its next attempt
\* calls the transport (nothing else of the call changes in between); when it
\* throws, execute() runs onFailure()
RFRejects(call, err) ==
  /\ RFActive
  /\ BagIn(call, rfCalls)
  /\ call.retry.pc = "attempt"
  /\ LET error == [attempt |-> call.retry.invocations + 1,
                   status |-> err.status, codes |-> err.codes]
         retry == retryCatch([call.retry EXCEPT !.invocations = @ + 1], error)
     IN
       IF retry.pc = "sleep"
       THEN /\ rfCalls' = (rfCalls (-) SetToBag({call}))
                            (+) SetToBag({[call EXCEPT !.retry = retryResume(retry)]})
            /\ rfLast' = RFStep("rejected", call.context, call.cacheKey, call.kind, "none",
                                "retrying", 0, RFNoBreakerConfig, RFNoCacheConfig, retry)
            /\ UNCHANGED <<circuitBreakers, apiCaches, rfFailStreak>>
       ELSE /\ rfCalls' = rfCalls (-) SetToBag({call})
            /\ circuitBreakers' = [circuitBreakers EXCEPT ![call.context] =
                                     <<onFailure(circuitBreakers[call.context][1], now).cb>>]
            /\ apiCaches' = rfCacheAfter(apiCaches, call, FALSE, 0, now)
            /\ rfFailStreak' = [rfFailStreak EXCEPT ![call.context] =
                                  [n |-> @.n + 1, keys |-> @.keys \cup {call.cacheKey}]]
            /\ rfLast' = RFStep("rejected", call.context, call.cacheKey, call.kind, "none",
                                "thrown", 0, RFNoBreakerConfig, RFNoCacheConfig, retry)
  /\ UNCHANGED <<now, cbVars, rtVars, mcVars, ecVars, fwVars, rfStarted, gtVars>>

\* what parser(response) can reject with: an Error without a status, whose
\* message is the parser's own (the SyntaxError of response.json() quotes
\* the body it was given)
RFParserErrors ==
  {[status |-> NoStatus, codes |-> {}],
   [status |-> NoStatus, codes |-> {"ETIMEDOUT"}]}

\* fetch() resolves with an ok response and `await parser(response)` rejects
\* inside the operation retryWithBackoff runs: the same catch block
RFParserFails(call, err) ==
  /\ RFActive
  /\ BagIn(call, rfCalls)
  /\ call.retry.pc = "attempt"
  /\ LET error == [attempt |-> call.retry.invocations + 1,
                   status |-> err.status, codes |-> err.codes]
         retry == retryCatch([call.retry EXCEPT !.invocations = @ + 1], error)
     IN
       IF retry.pc = "sleep"
       THEN /\ rfCalls' = (rfCalls (-) SetToBag({call}))
                            (+) SetToBag({[call EXCEPT !.retry = retryResume(retry)]})
            /\ rfLast' = RFStep("parserFailed", call.context, call.cacheKey, call.kind, "none",
                                "retrying", 0, RFNoBreakerConfig, RFNoCacheConfig, retry)
            /\ UNCHANGED <<circuitBreakers, apiCaches, rfFailStreak>>
       ELSE /\ rfCalls' = rfCalls (-) SetToBag({call})
            /\ circuitBreakers' = [circuitBreakers EXCEPT ![call.context] =
                                     <<onFailure(circuitBreakers[call.context][1], now).cb>>]
            /\ apiCaches' = rfCacheAfter(apiCaches, call, FALSE, 0, now)
            /\ rfFailStreak' = [rfFailStreak EXCEPT ![call.context] =
                                  [n |-> @.n + 1, keys |-> @.keys \cup {call.cacheKey}]]
            /\ rfLast' = RFStep("parserFailed", call.context, call.cacheKey, call.kind, "none",
                                "thrown", 0, RFNoBreakerConfig, RFNoCacheConfig, retry)
  /\ UNCHANGED <<now, cbVars, rtVars, mcVars, ecVars, fwVars, rfStarted, gtVars>>

RFTick ==
  /\ RFActive
  /\ Tick
  /\ rfLast' = RFIdle("tick")
  /\ UNCHANGED <<cbVars, rtVars, mcVars, ecVars, fwVars, gtVars,
                 circuitBreakers, apiCaches, rfCalls, rfFailStreak, rfStarted>>

\* ------------------------------------------------- GTFS-Realtime: delays
StopIds == {"s1", "s2"}
TripIds == {"T1", "T2"}
\* the tripId argument left out; '' is falsy too, and is what the decoder
\* stores for a trip descriptor without trip_id
NoTripId == ""
DelaySeconds == {-60, -40, 0, 30, 300}

\* arrival? / departure?: absent, or one event with its delay in seconds
\* (the time field is read by neither function)
NoEvent == <<>>
StopTimeEvent(delay) == <<[delay |-> delay]>>
\* scheduleRelationship?: string
NoRelationship == "undefined"

\* interface StopTimeUpdate (stopSequence is read by neither function)
StopTimeUpdate(stopId, arrival, departure, scheduleRelationship) ==
  [stopId |-> stopId, arrival |-> arrival, departure |-> departure,
   scheduleRelationship |-> scheduleRelationship]

\* interface TripUpdate (routeId, startDate, startTime are read by neither
\* function)
TripUpdate(tripId, stopTimeUpdates) ==
  [tripId |-> tripId, stopTimeUpdates |-> stopTimeUpdates]

Abs(x) == IF x < 0 THEN -x ELSE x

\* x?.delay || rest: an absent event and a delay of 0 are both falsy
delayOr(event, rest) ==
  IF event # NoEvent /\ event[1].delay # 0 THEN event[1].delay ELSE rest

\* stu.departure?.delay || stu.arrival?.delay || 0
stopDelaySeconds(stu) == delayOr(stu.departure, delayOr(stu.arrival, 0))

\* minutes by dropping the fraction
delayMinutes_Truncated(delay) ==
  IF delay >= 0 THEN delay \div 60 ELSE -((-delay) \div 60)

\* Math.round(delay / 60): floor(delay / 60 + 1/2)
delayMinutes(delay) == (delay + 30) \div 60

\* a test that knows SKIPPED only
isCancelledRelationship_SkippedOnly(scheduleRelationship) ==
  scheduleRelationship = "SKIPPED"

\* scheduleRelationship === 'SKIPPED' || scheduleRelationship === 'CANCELED'
isCancelledRelationship(scheduleRelationship) ==
  scheduleRelationship \in {"SKIPPED", "CANCELED"}

\* let status = 'on-time'; if (cancelled) ... else if (Math.abs(m) >= 1) ...
delayStatus(cancelled, minutes) ==
  IF cancelled THEN "cancelled"
  ELSE IF Abs(minutes) >= 1 THEN "delayed"
  ELSE "on-time"

DelayInfo(minutes, status) == [delay |-> minutes, status |-> status]
\* return null
Null == DelayInfo(0, "null")

\* the first stop-time update of the list with the stopId, as <<stu>>
RECURSIVE findStop(_, _)
findStop(stus, stopId) ==
  IF stus = <<>> THEN <<>>
  ELSE IF Head(stus).stopId = stopId THEN <<Head(stus)>>
  ELSE findStop(Tail(stus), stopId)

\* the two loops of getStopDelay: the stop-time update it returns at
RECURSIVE stopMatch(_, _, _)
stopMatch(updates, stopId, tripId) ==
  IF updates = <<>> THEN <<>>
  ELSE IF tripId # NoTripId /\ Head(updates).tripId # tripId
       THEN stopMatch(Tail(updates), stopId, tripId)
  ELSE IF findStop(Head(updates).stopTimeUpdates, stopId) # <<>>
       THEN findStop(Head(updates).stopTimeUpdates, stopId)
  ELSE stopMatch(Tail(updates), stopId, tripId)

\* the body of getStopDelay at the matched stop-time update
stopDelayInfo(stu) ==
  LET minutes == delayMinutes(stopDelaySeconds(stu)) IN
  DelayInfo(minutes,
            delayStatus(isCancelledRelationship(stu.scheduleRelationship), minutes))

\* an unmatched lookup answered with on-time
getStopDelay_OnTimeWhenUnmatched(updates, stopId, tripId) ==
  LET m == stopMatch(updates, stopId, tripId) IN
  IF m = <<>> THEN DelayInfo(0, "on-time") ELSE stopDelayInfo(m[1])

getStopDelay(updates, stopId, tripId) ==
  LET m == stopMatch(updates, stopId, tripId) IN
  IF m = <<>> THEN Null ELSE stopDelayInfo(m[1])

\* the first update with the tripId, as <<update>>
RECURSIVE tripMatch(_, _)
tripMatch(updates, tripId) ==
  IF updates = <<>> THEN <<>>
  ELSE IF Head(updates).tripId = tripId THEN <<Head(updates)>>
  ELSE tripMatch(Tail(updates), tripId)

\* keeping the delay of the stop visited last
keepMaxDelay_Last(maxDelaySeconds, stopDelay) == stopDelay

\* if (Math.abs(stopDelay) > Math.abs(maxDelaySeconds)) maxDelaySeconds = stopDelay
keepMaxDelay(maxDelaySeconds, stopDelay) ==
  IF Abs(stopDelay) > Abs(maxDelaySeconds) THEN stopDelay ELSE maxDelaySeconds

\* the loop of getTripDelay over the stops, from maxDelaySeconds so far
RECURSIVE scanStops(_, _)
scanStops(stus, maxDelaySeconds) ==
  IF stus = <<>> THEN [maxDelaySeconds |-> maxDelaySeconds, isCancelled |-> FALSE]
  ELSE IF isCancelledRelationship(Head(stus).scheduleRelationship)
       THEN [maxDelaySeconds |-> maxDelaySeconds, isCancelled |-> TRUE]
  ELSE scanStops(Tail(stus), keepMaxDelay(maxDelaySeconds, stopDelaySeconds(Head(stus))))

getTripDelay(updates, tripId) ==
  LET m == tripMatch(updates, tripId) IN
  IF m = <<>> THEN Null
  ELSE IF m[1].stopTimeUpdates = <<>> THEN Null
  ELSE LET scan == scanStops(m[1].stopTimeUpdates, 0)
           minutes == delayMinutes(scan.maxDelaySeconds) IN
       DelayInfo(minutes, delayStatus(scan.isCancelled, minutes))

\* ------------------------------------------------ GTFS-Realtime: decoding
\* transit_realtime.TripUpdate.StopTimeUpdate.ScheduleRelationship: the
\* decoder gives an enum field as its number
ScheduleRelationship == [SCHEDULED |-> 0, SKIPPED |-> 1, NO_DATA |-> 2]

\* a decoded stop_time_update message: absent stop_id is '', absent
\* schedule_relationship is SCHEDULED, an absent event is null
FeedStopTimeUpdate(stopId, arrival, departure, scheduleRelationship) ==
  [stopId |-> stopId, arrival |-> arrival, departure |-> departure,
   scheduleRelationship |-> scheduleRelationship]

\* a decoded entity: one with a trip_update or one of another kind
NoTripUpdate == <<>>
FeedTripUpdate(tripId, stopTimeUpdate) ==
  <<[trip |-> [tripId |-> tripId], stopTimeUpdate |-> stopTimeUpdate]>>
FeedEntity(tripUpdate) == [tripUpdate |-> tripUpdate]

\* the response body: bytes FeedMessage.decode throws on, or the bytes of a
\* feed with its entities
CorruptBuffer == [wellFormed |-> FALSE, entity |-> <<>>]
FeedBuffer(entity) == [wellFormed |-> TRUE, entity |-> entity]

\* ApiResponse, with the error type handleApiError records on its span
\* ('none': nothing recorded)
createErrorResponse(message, statusCode, errorType) ==
  [error |-> TRUE, message |-> message, data |-> <<>>,
   statusCode |-> statusCode, errorType |-> errorType]

createSuccessResponse(data, message) ==
  [error |-> FALSE, message |-> message, data |-> data,
   statusCode |-> NoStatus, errorType |-> "none"]

\* handleApiError of an AppError; its message is named by its type
handleApiError(appError) ==
  createErrorResponse(appError.type, appError.statusCode, appError.type)

\* the object pushed for one stop_time_update
decodeStopTimeUpdate(stu) ==
  StopTimeUpdate(stu.stopId, stu.arrival, stu.departure,
                 ToString(stu.scheduleRelationship))

RECURSIVE decodeStopTimeUpdates(_)
decodeStopTimeUpdates(stus) ==
  IF stus = <<>> THEN <<>>
  ELSE <<decodeStopTimeUpdate(Head(stus))>> \o decodeStopTimeUpdates(Tail(stus))

\* for (const entity of feed.entity) if (entity.tripUpdate && ...) push
RECURSIVE decodeEntities(_)
decodeEntities(entity) ==
  IF entity = <<>> THEN <<>>
  ELSE IF Head(entity).tripUpdate = NoTripUpdate THEN decodeEntities(Tail(entity))
  ELSE <<TripUpdate(Head(entity).tripUpdate[1].trip.tripId,
                    decodeStopTimeUpdates(Head(entity).tripUpdate[1].stopTimeUpdate))>>
       \o decodeEntities(Tail(entity))

\* what a call of fetchTripUpdates meets: whether TRANSIT_API_KEY is set,
\* the AppError fetchWithRetry throws (NoAppError: it returns a response)
\* and the body of the response
FetchInput(apiKey, thrown, buffer) ==
  [apiKey |-> apiKey, thrown |-> thrown, buffer |-> buffer]

\* a decode failure answered with an empty list of updates
fetchTripUpdates_SwallowsDecodeError(input) ==
  IF ~input.apiKey
  THEN createErrorResponse("TRANSIT_API_KEY not configured", NoStatus, "none")
  ELSE IF input.thrown # NoAppError THEN handleApiError(input.thrown)
  ELSE createSuccessResponse(decodeEntities(input.buffer.entity), "Fetched")

fetchTripUpdates(input) ==
  IF ~input.apiKey
  THEN createErrorResponse("TRANSIT_API_KEY not configured", NoStatus, "none")
  ELSE IF input.thrown # NoAppError THEN handleApiError(input.thrown)
  ELSE IF ~input.buffer.wellFormed
       THEN handleApiError(AppError("PARSE_ERROR", NoStatus))
  ELSE createSuccessResponse(decodeEntities(input.buffer.entity), "Fetched")

\* ------------------------------------------------- GTFS-Realtime: inputs
SeqsUpTo(S, n) == UNION {[1..k -> S] : k \in 0..n}

\* stop-time updates as a caller can hand them to the two functions
StopTimeUpdates ==
  {StopTimeUpdate("s1", NoEvent, StopTimeEvent(d), NoRelationship) : d \in DelaySeconds}
  \cup {StopTimeUpdate("s2", arrival, departure, NoRelationship) :
          arrival \in {NoEvent, StopTimeEvent(120)},
          departure \in {NoEvent, StopTimeEvent(0)}}
  \cup {StopTimeUpdate("s1", NoEvent, StopTimeEvent(300), "SKIPPED"),
        StopTimeUpdate("s2", NoEvent, NoEvent, "CANCELED")}

\* no trip update, one, or one followed by a short one of trip T1
UpdateLists ==
  LET first == {TripUpdate(t, stus) :
                  t \in TripIds, stus \in SeqsUpTo(StopTimeUpdates, MaxStops)}
      second == TripUpdate("T1", <<StopTimeUpdate("s2", NoEvent, StopTimeEvent(300),
                                                  NoRelationship)>>)
  IN {<<>>} \cup {<<u>> : u \in first} \cup {<<u, second>> : u \in first}

\* stop_time_update messages of a feed
FeedStopTimeUpdates ==
  {FeedStopTimeUpdate("s1", NoEvent, StopTimeEvent(300), ScheduleRelationship.SCHEDULED),
   FeedStopTimeUpdate("s2", StopTimeEvent(120), NoEvent, ScheduleRelationship.SKIPPED),
   FeedStopTimeUpdate("", NoEvent, NoEvent, ScheduleRelationship.NO_DATA)}

\* feeds of no entity, of one, or of an entity of another kind and one more
FeedEntities ==
  {FeedEntity(NoTripUpdate)}
  \cup {FeedEntity(FeedTripUpdate(t, stus)) :
          t \in {"T1", NoTripId}, stus \in SeqsUpTo(FeedStopTimeUpdates, MaxStops)}

FetchInputs ==
  {FetchInput(FALSE, NoAppError, CorruptBuffer),
   FetchInput(TRUE, AppError("TIMEOUT_ERROR", NoStatus), CorruptBuffer),
   FetchInput(TRUE, AppError("API_ERROR", 503), CorruptBuffer),
   FetchInput(TRUE, NoAppError, CorruptBuffer)}
  \cup {FetchInput(TRUE, NoAppError, FeedBuffer(entity)) :
          entity \in {<<>>} \cup {<<e>> : e \in FeedEntities}
                     \cup {<<FeedEntity(NoTripUpdate), e>> : e \in FeedEntities}}

\* ------------------------------------------------ GTFS-Realtime: actions
NoResponse == createSuccessResponse(<<>>, "none")
NoFetchInput == FetchInput(FALSE, NoAppError, CorruptBuffer)

\* the updates at hand, where they come from, and the last call with its
\* arguments and result
GTState(origin, op, input, response, updates, stopId, tripId, result) ==
  [origin |-> origin, op |-> op, input |-> input, response |-> response,
   updates |-> updates, stopId |-> stopId, tripId |-> tripId, result |-> result]

GTParked ==
  gt = GTState("parked", "none", NoFetchInput, NoResponse, <<>>, "s1", NoTripId, Null)

GTInit ==
  gt \in {GTState("caller", "none", NoFetchInput, NoResponse, u, "s1", NoTripId, Null) :
            u \in UpdateLists}
         \cup {GTState("transport", "none", i, NoResponse, <<>>, "s1", NoTripId, Null) :
                 i \in FetchInputs}

GTOthersUnchanged == UNCHANGED <<now, cbVars, rtVars, mcVars, ecVars, fwVars, rfVars>>

\* the trip updates of the response are what the route handler looks up
GTFetchTripUpdates ==
  /\ gt.origin = "transport"
  /\ gt.op = "none"
  /\ LET response == fetchTripUpdates(gt.input) IN
       gt' = [gt EXCEPT !.op = "fetchTripUpdates", !.response = response,
                        !.updates = response.data]
  /\ GTOthersUnchanged

GTReady ==
  \/ gt.origin = "caller" /\ gt.op = "none"
  \/ gt.origin = "transport" /\ gt.op = "fetchTripUpdates"

GTGetStopDelay(stopId, tripId) ==
  /\ GTReady
  /\ gt' = [gt EXCEPT !.op = "getStopDelay", !.stopId = stopId, !.tripId = tripId,
                      !.result = getStopDelay(gt.updates, stopId, tripId)]
  /\ GTOthersUnchanged

GTGetTripDelay(tripId) ==
  /\ GTReady
  /\ gt' = [gt EXCEPT !.op = "getTripDelay", !.tripId = tripId,
                      !.result = getTripDelay(gt.updates, tripId)]
  /\ GTOthersUnchanged


Init ==
  /\ now = 0
  /\ CBInit
  /\ RTParked
  /\ MCParked
  /\ ECParked
  /\ FWParked
  /\ RFParked
  /\ GTParked

Next ==
  \/ CBExecute
  \/ \E s \in CircuitBreakerState : CBSucceed(s)
  \/ \E s \in CircuitBreakerState : CBFail(s)
  \/ CBTick

Spec == Init /\ [][Next]_vars

InitRetry ==
  /\ now = 0
  /\ CBParked
  /\ RTInit
  /\ MCParked
  /\ ECParked
  /\ FWParked
  /\ RFParked
  /\ GTParked

NextRetry ==
  \/ \E status \in ErrorStatuses, codes \in ErrorMessages : RetryAttemptFails(status, codes)
  \/ RetryAttemptSucceeds
  \/ RetrySleepDone
  \/ RetryTick

SpecRetry == InitRetry /\ [][NextRetry]_vars

InitMemoryCache ==
  /\ now = 0
  /\ CBParked
  /\ RTParked
  /\ MCInit
  /\ ECParked
  /\ FWParked
  /\ RFParked
  /\ GTParked

NextMemoryCache ==
  \/ \E key \in Keys : MCGet(key)
  \/ \E key \in Keys, data \in Values : MCLoadResolves(key, data)
  \/ \E key \in Keys : MCLoadRejects(key)
  \/ \E key \in Keys, kind \in {"refresh", "orphan"}, data \in Values :
        MCRefreshResolves(key, kind, data)
  \/ \E key \in Keys, kind \in {"refresh", "orphan"} : MCRefreshRejects(key, kind)
  \/ \E key \in Keys, data \in Values : MCSet(key, data)
  \/ \E key \in Keys : MCGetSync(key)
  \/ \E key \in Keys : MCHas(key)
  \/ \E key \in Keys : MCDelete(key)
  \/ MCClear
  \/ MCTick

SpecMemoryCache == InitMemoryCache /\ [][NextMemoryCache]_vars

InitEnhancedCache ==
  /\ now = 0
  /\ CBParked
  /\ RTParked
  /\ MCParked
  /\ ECInit
  /\ FWParked
  /\ RFParked
  /\ GTParked

NextEnhancedCache ==
  \/ UNCHANGED ecOrder /\ \E key \in Keys : ECGet(key)
  \/ UNCHANGED ecOrder /\ \E key \in Keys, data \in Values : ECFetchResolves(key, data)
  \/ UNCHANGED ecOrder /\ \E key \in Keys : ECFetchRejects(key)
  \/ UNCHANGED ecOrder /\ \E key \in Keys, data \in Values : ECRevalidateResolves(key, data)
  \/ UNCHANGED ecOrder /\ \E key \in Keys : ECRevalidateRejects(key)
  \/ UNCHANGED ecOrder /\ ECClear
  \/ UNCHANGED ecOrder /\ ECTick

SpecEnhancedCache == InitEnhancedCache /\ [][NextEnhancedCache]_vars

\* EnhancedCache with the start order of its fetcher() calls kept as history.
\* A call in flight is superseded when the entry now stored under its key
\* was stored by a call that was started after it.
ECTask(key, kind) == [key |-> key, kind |-> kind, superseded |-> FALSE]

ECTasksAt(order, key, kind) ==
  {i \in 1..Len(order.inflight) :
     order.inflight[i].key = key /\ order.inflight[i].kind = kind}

RemoveAt(seq, i) == SubSeq(seq, 1, i - 1) \o SubSeq(seq, i + 1, Len(seq))

\* get(): the fetcher() it calls, if any, is the latest started
ECStartedOrder(order, step) ==
  [inflight |-> IF step.started = "none" THEN order.inflight
                ELSE Append(order.inflight, ECTask(step.key, step.started)),
   regressed |-> FALSE]

\* the i-th call in flight resolved and set() stored its value: the calls of
\* its key started before it are superseded, those started after it are not;
\* a call whose key set() evicted has nothing stored to be superseded by
ECStoredOrder(order, i, cacheAfter) ==
  LET task == order.inflight[i]
      mark(j) == LET u == order.inflight[j] IN
                 [u EXCEPT !.superseded =
                    IF u.key = task.key THEN j < i
                    ELSE u.superseded /\ ECHas(cacheAfter, u.key)]
      marked == [j \in 1..Len(order.inflight) |-> mark(j)]
  IN [inflight |-> RemoveAt(marked, i),
      regressed |-> task.kind = "revalidate" /\ task.superseded]

ECRejectedOrder(order, i) ==
  [inflight |-> RemoveAt(order.inflight, i), regressed |-> FALSE]

ECClearedOrder(order) ==
  [inflight |-> [j \in 1..Len(order.inflight) |->
                   [order.inflight[j] EXCEPT !.superseded = FALSE]],
   regressed |-> FALSE]

NextEnhancedCacheOrdered ==
  \/ \E key \in Keys : ECGet(key) /\ ecOrder' = ECStartedOrder(ecOrder, ecLast')
  \/ \E key \in Keys, data \in Values, i \in 1..Len(ecOrder.inflight) :
        /\ i \in ECTasksAt(ecOrder, key, "fetch")
        /\ ECFetchResolves(key, data)
        /\ ecOrder' = ECStoredOrder(ecOrder, i, ec'.cache)
  \/ \E key \in Keys, i \in 1..Len(ecOrder.inflight) :
        /\ i \in ECTasksAt(ecOrder, key, "fetch")
        /\ ECFetchRejects(key)
        /\ ecOrder' = ECRejectedOrder(ecOrder, i)
  \/ \E key \in Keys, data \in Values, i \in 1..Len(ecOrder.inflight) :
        /\ i \in ECTasksAt(ecOrder, key, "revalidate")
        /\ ECRevalidateResolves(key, data)
        /\ ecOrder' = ECStoredOrder(ecOrder, i, ec'.cache)
  \/ \E key \in Keys, i \in 1..Len(ecOrder.inflight) :
        /\ i \in ECTasksAt(ecOrder, key, "revalidate")
        /\ ECRevalidateRejects(key)
        /\ ecOrder' = ECRejectedOrder(ecOrder, i)
  \/ ECClear /\ ecOrder' = ECClearedOrder(ecOrder)
  \/ ECTick /\ UNCHANGED ecOrder

SpecEnhancedCacheOrdered == InitEnhancedCache /\ [][NextEnhancedCacheOrdered]_vars

\* either cache, for the properties stated of both
InitCaches ==
  /\ now = 0
  /\ CBParked
  /\ RTParked
  /\ \/ MCInit /\ ECParked
     \/ MCParked /\ ECInit
  /\ FWParked
  /\ RFParked
  /\ GTParked

NextCaches ==
  \/ NextMemoryCache
  \/ NextEnhancedCache

SpecCaches == InitCaches /\ [][NextCaches]_vars

\* The caches for the question whether refreshes end: configured with a
\* stale-while-revalidate window, without which get() starts no background
\* refresh, and with fetchers that resolve to one value, the value stored
\* having no part in when a refresh starts or ends.
InitCachesRefreshing ==
  /\ InitCaches
  /\ MCActive => mcOptions.staleWhileRevalidate # 0
  /\ ECActive => ec.config.staleWhileRevalidateMs # 0

RefreshedValues == {1}

\* A fetcher() call that a background refresh started settles (it resolves,
\* or it rejects: with the error of the response, of the transport or of its
\* timeout), and the reaction registered on its promise then runs.
MCRefreshSettles(key) ==
  \/ \E data \in RefreshedValues : MCRefreshResolves(key, "refresh", data)
  \/ MCRefreshRejects(key, "refresh")

ECRevalidateSettles(key) ==
  /\ \/ \E data \in RefreshedValues : ECRevalidateResolves(key, data)
     \/ ECRevalidateRejects(key)
  /\ UNCHANGED ecOrder

NextCachesRefreshing ==
  \/ \E key \in Keys : MCGet(key)
  \/ \E key \in Keys, data \in RefreshedValues : MCLoadResolves(key, data)
  \/ \E key \in Keys : MCLoadRejects(key)
  \/ \E key \in Keys, kind \in {"refresh", "orphan"}, data \in RefreshedValues :
        MCRefreshResolves(key, kind, data)
  \/ \E key \in Keys, kind \in {"refresh", "orphan"} : MCRefreshRejects(key, kind)
  \/ \E key \in Keys, data \in RefreshedValues : MCSet(key, data)
  \/ \E key \in Keys : MCGetSync(key)
  \/ \E key \in Keys : MCHas(key)
  \/ \E key \in Keys : MCDelete(key)
  \/ MCClear
  \/ MCTick
  \/ UNCHANGED ecOrder /\ \E key \in Keys : ECGet(key)
  \/ UNCHANGED ecOrder /\ \E key \in Keys, data \in RefreshedValues : ECFetchResolves(key, data)
  \/ UNCHANGED ecOrder /\ \E key \in Keys : ECFetchRejects(key)
  \/ UNCHANGED ecOrder /\ \E key \in Keys, data \in RefreshedValues : ECRevalidateResolves(key, data)
  \/ UNCHANGED ecOrder /\ \E key \in Keys : ECRevalidateRejects(key)
  \/ UNCHANGED ecOrder /\ ECClear
  \/ UNCHANGED ecOrder /\ ECTick

FairCaches ==
  \A key \in Keys : WF_vars(MCRefreshSettles(key)) /\ WF_vars(ECRevalidateSettles(key))

SpecCachesFair == InitCachesRefreshing /\ [][NextCachesRefreshing]_vars /\ FairCaches

InitFetchWithRetry ==
  /\ now = 0
  /\ CBParked
  /\ RTParked
  /\ MCParked
  /\ ECParked
  /\ FWInit
  /\ RFParked
  /\ GTParked

NextFetchWithRetry ==
  \/ \E status \in FWStatuses : FWResponse(status)
  \/ \E name \in FWExceptions : FWException(name)
  \/ FWSleepDone

SpecFetchWithRetry == InitFetchWithRetry /\ [][NextFetchWithRetry]_vars

InitResilientFetch ==
  /\ now = 0
  /\ CBParked
  /\ RTParked
  /\ MCParked
  /\ ECParked
  /\ FWParked
  /\ RFInit
  /\ GTParked

NextResilientFetch ==
  \/ \E context \in Contexts, cacheKey \in CacheKeys, options \in RFOptions :
        RFCall(context, cacheKey, options)
  \/ \E call \in BagToSet(rfCalls), data \in RFValues : RFResolves(call, data)
  \/ \E call \in BagToSet(rfCalls), err \in RFErrors : RFRejects(call, err)
  \/ RFTick

SpecResilientFetch == InitResilientFetch /\ [][NextResilientFetch]_vars

\* resilientFetch against a transport whose responses are ok: each attempt
\* ends in the parser, which resolves or rejects
NextResilientFetchParser ==
  \/ \E context \in Contexts, cacheKey \in CacheKeys, options \in RFOptions :
        RFCall(context, cacheKey, options)
  \/ \E call \in BagToSet(rfCalls), data \in RFValues : RFResolves(call, data)
  \/ \E call \in BagToSet(rfCalls), err \in RFParserErrors : RFParserFails(call, err)
  \/ RFTick

SpecResilientFetchParser == InitResilientFetch /\ [][NextResilientFetchParser]_vars

\* either fetcher, for the properties stated of both
InitFetchers ==
  /\ now = 0
  /\ CBParked
  /\ RTParked
  /\ MCParked
  /\ ECParked
  /\ \/ FWInit /\ RFParked
     \/ FWParked /\ RFInit
  /\ GTParked

NextFetchers ==
  \/ NextFetchWithRetry
  \/ NextResilientFetch

SpecFetchers == InitFetchers /\ [][NextFetchers]_vars

InitGtfsRealtime ==
  /\ now = 0
  /\ CBParked
  /\ RTParked
  /\ MCParked
  /\ ECParked
  /\ FWParked
  /\ RFParked
  /\ GTInit

NextGtfsRealtime ==
  \/ GTFetchTripUpdates
  \/ \E stopId \in StopIds, tripId \in {NoTripId, "T1"} : GTGetStopDelay(stopId, tripId)
  \/ \E tripId \in {"T1", NoTripId} : GTGetTripDelay(tripId)

SpecGtfsRealtime == InitGtfsRealtime /\ [][NextGtfsRealtime]_vars

\* ------------------------------------------------ CircuitBreaker: claims
InflightTotal(f) == f["closed"] + f["open"] + f["half_open"]

WithinResetTimeout(l) ==
  l.at - l.pre.lastFailureTime <= l.pre.config.resetTimeoutMs

\* C1: after failureThreshold failed calls made while Closed, with no success
\* in between, the breaker is Open, and it stays Open until a call is
\* admitted; a call made while no more than resetTimeoutMs has passed since
\* the last failure is rejected, leaves the breaker as it was and invokes no
\* operation.
C1_ThresholdOpensAndRejects ==
  /\ (cbLast.op = "fail" /\ cbLast.admittedIn = "closed"
        /\ closedFailStreak >= cb.config.failureThreshold) => cb.state = "open"
  /\ tripped => cb.state = "open"
  /\ (cbLast.op = "execute" /\ (tripped \/ cbLast.pre.state = "open")
        /\ WithinResetTimeout(cbLast))
       => /\ ~cbLast.admitted
          /\ cbLast.events = <<"rejected">>
          /\ cbInflight = cbLast.inflightPre

\* a call is rejected right after the second of two failures opened the breaker
C1_Witness ==
  /\ cb.config.failureThreshold >= 2
  /\ tripped
  /\ closedFailStreak = cb.config.failureThreshold
  /\ cbLast.op = "execute"
  /\ ~cbLast.admitted

\* C2 (as claimed): every failure recorded while HalfOpen moves the breaker
\* to Open and sets lastFailureTime to the time of the failure.
C2_HalfOpenFailureReopens ==
  (cbLast.op = "fail" /\ cbLast.pre.state = "half_open")
    => (cb.state = "open" /\ cb.lastFailureTime = cbLast.at)

\* C3: a call made while Open and more than resetTimeoutMs after
\* lastFailureTime moves the breaker to HalfOpen and invokes its operation;
\* the third consecutive success recorded in HalfOpen closes the breaker, so
\* the breaker is never HalfOpen with three consecutive successes behind it.
C3_HalfOpenRecovery ==
  /\ (cbLast.op = "execute" /\ cbLast.pre.state = "open" /\ ~WithinResetTimeout(cbLast))
       => /\ cb.state = "half_open"
          /\ cbLast.admitted
          /\ InflightTotal(cbInflight) = InflightTotal(cbLast.inflightPre) + 1
  /\ (cbLast.op = "succeed" /\ cbLast.pre.state = "half_open" /\ halfOpenStreak >= 3)
       => cb.state = "closed"
  /\ cb.state = "half_open" => halfOpenStreak < 3

\* the third consecutive HalfOpen success has just closed the breaker
C3_Witness ==
  /\ cbLast.op = "succeed"
  /\ cbLast.pre.state = "half_open"
  /\ halfOpenStreak = 3
  /\ cb.state = "closed"

\* ---------------------------------------------------------- caches: claims
MCAge(key) == now - mc.cache[key].timestamp

\* ttl < age <= ttl + staleWhileRevalidate
MCInStaleWindow(entry, t) ==
  /\ entry.present
  /\ entry.ttl < t - entry.timestamp
  /\ t - entry.timestamp <= entry.ttl + entry.staleWhileRevalidate

\* no entry, or age > ttl + staleWhileRevalidate
MCMissing(entry, t) ==
  ~entry.present \/ t - entry.timestamp > entry.ttl + entry.staleWhileRevalidate

ECMissing(key) ==
  \/ ~ECHas(ec.cache, key)
  \/ now - ECEntry(ec.cache, key).timestamp
        > ec.config.ttlMs + ec.config.staleWhileRevalidateMs

MCHeld(m) == {k \in Keys : m.cache[k].present}

\* the keys a MemoryCache holds by the time of their last get/getSync/set:
\* every one of these calls gives its key the highest access number
MCAccess(m) == SelectSeq(m.accessOrder, LAMBDA k : m.cache[k].present)

\* C4 (as claimed): in both caches, no key ever has two background
\* refreshes in flight.
C4_OneRefreshPerKey ==
  \A k \in Keys :
    /\ RefreshesInFlight(mcTasks, k) <= 1
    /\ ecTasks[k, "revalidate"] <= 1

\* Every step of a cache records in mcLast / ecLast the operation it
\* performed, so a step of operation op on key k is one with
\* mcLast'.op = op and mcLast'.key = k.
MCStepOf(ops) == mcLast'.op \in ops
ECStepOf(ops) == ecLast'.op \in ops

\* C5: a MemoryCache get() of an entry in its stale window returns the stored
\* value at once, awaits no fetcher and leaves the entry's value and
\* timestamp as they were, so every reader during the refresh gets that same
\* value; when the refresh resolves, the key holds the refreshed value as a
\* fresh entry, which is what later reads return.
C5_StaleReadServedUnblocked ==
  [][ LET k == mcLast'.key IN
      /\ (MCStepOf({"get"}) /\ MCInStaleWindow(mc.cache[k], now))
           => /\ mcLast'.started # "load"
              /\ mcTasks'[k, "load"] = mcTasks[k, "load"]
              /\ mcLast'.value = mc.cache[k].data
              /\ mc'.cache[k].data = mc.cache[k].data
              /\ mc'.cache[k].timestamp = mc.cache[k].timestamp
      /\ MCStepOf({"refreshResolved"})
           => /\ mc'.cache[k].data = mcLast'.value
              /\ mcGetBranch(mc'.cache[k], now') = "fresh"
    ]_vars

\* a second reader got the stored value while the refresh was in flight
C5_Witness ==
  /\ mcLast.op = "get"
  /\ mcLast.branch = "stale"
  /\ mcLast.started = "none"
  /\ mcTasks[mcLast.key, "refresh"] = 1
  /\ mcLast.value = mc.cache[mcLast.key].data

\* C6: a refresh that resolves stores its value under its key in an entry
\* without in-flight marker; one that rejects changes no entry's value or
\* timestamp and clears the marker it set, after which a get() of the key in
\* its stale window starts a refresh unless one started on the stored entry
\* is in flight.
C6_RefreshCompletion ==
  [][ /\ MCStepOf({"refreshResolved"})
           => LET k == mcLast'.key IN
              /\ mc'.cache[k].present
              /\ mc'.cache[k].data = mcLast'.value
              /\ ~mc'.cache[k].refreshPromise
      /\ MCStepOf({"refreshRejected"})
           => LET k == mcLast'.key IN
              /\ \A j \in Keys :
                   /\ mc'.cache[j].present = mc.cache[j].present
                   /\ mc'.cache[j].data = mc.cache[j].data
                   /\ mc'.cache[j].timestamp = mc.cache[j].timestamp
              /\ mcLast'.branch = "refresh" => ~mc'.cache[k].refreshPromise
              /\ mc'.cache[k].refreshPromise => mcTasks'[k, "refresh"] > 0
      /\ ECStepOf({"revalidateResolved"})
           => LET k == ecLast'.key IN
              /\ ECHas(ec'.cache, k)
              /\ ECEntry(ec'.cache, k).data = ecLast'.value
              /\ k \notin ec'.revalidationPromises
      /\ ECStepOf({"revalidateRejected"})
           => /\ ec'.cache = ec.cache
              /\ ecLast'.key \notin ec'.revalidationPromises
    ]_vars

\* a refresh has rejected and the stale entry it was started on is stored
\* without marker, so that a get() now starts a new refresh
C6_Witness ==
  /\ mcLast.op = "refreshRejected"
  /\ mcLast.branch = "refresh"
  /\ MCInStaleWindow(mc.cache[mcLast.key], now)
  /\ ~mc.cache[mcLast.key].refreshPromise

\* C7 (as claimed): in both caches a get() of an entry with age <= ttl,
\* ttl > 0, returns the stored value and calls no fetcher.
C7_FreshHit ==
  [][ /\ LET k == mcLast'.key IN
         (MCStepOf({"get"}) /\ mc.cache[k].present /\ mc.cache[k].ttl > 0
            /\ MCAge(k) <= mc.cache[k].ttl)
           => /\ mcLast'.started = "none"
              /\ mcLast'.value = mc.cache[k].data
              /\ mcTasks' = mcTasks
      /\ LET k == ecLast'.key IN
         (ECStepOf({"get"}) /\ ECHas(ec.cache, k) /\ ec.config.ttlMs > 0
            /\ now - ECEntry(ec.cache, k).timestamp <= ec.config.ttlMs)
           => /\ ecLast'.started = "none"
              /\ ecLast'.value = ECEntry(ec.cache, k).data
              /\ ecTasks' = ecTasks
    ]_vars

\* C8: in both caches a get() that finds no entry, or an entry of age above
\* ttl + staleWhileRevalidate, returns nothing yet: it calls the fetcher,
\* awaits it and starts no background refresh; when the fetcher resolves,
\* its value is stored under the key and is the value get() returns.
C8_MissLoadsSynchronously ==
  [][ /\ LET k == mcLast'.key IN
         /\ (MCStepOf({"get"}) /\ MCMissing(mc.cache[k], now))
              => /\ mcLast'.started = "load"
                 /\ mcTasks' = Started(mcTasks, k, "load")
                 /\ mc'.cache = mc.cache
         /\ MCStepOf({"loadResolved"})
              => /\ mc'.cache[k].present
                 /\ mc'.cache[k].data = mcLast'.value
      /\ LET k == ecLast'.key IN
         /\ (ECStepOf({"get"}) /\ ECMissing(k))
              => /\ ecLast'.started = "fetch"
                 /\ ecTasks' = [ecTasks EXCEPT ![k, "fetch"] = @ + 1]
                 /\ ec' = ec
         /\ ECStepOf({"fetchResolved"})
              => /\ ECHas(ec'.cache, k)
                 /\ ECEntry(ec'.cache, k).data = ecLast'.value
    ]_vars

\* a get() found an expired entry and is awaiting its fetcher
C8_Witness ==
  /\ mcLast.op = "get"
  /\ mcLast.branch = "expired"
  /\ mcLast.started = "load"
  /\ mc.cache[mcLast.key].present
  /\ mcTasks[mcLast.key, "load"] > 0

\* C9 (as claimed): in both caches, storing a key that is not held into a
\* cache holding maxSize entries removes exactly the held key whose last
\* access is the oldest.
C9_EvictsLeastRecentlyAccessed ==
  [][ /\ LET k == mcLast'.key IN
         ( /\ MCStepOf({"set", "loadResolved", "refreshResolved"})
           /\ ~mc.cache[k].present
           /\ CacheSize(mc.cache) = mc.maxSize )
           => MCHeld(mc') = (MCHeld(mc) \ {Head(MCAccess(mc))}) \cup {k}
      /\ LET k == ecLast'.key IN
         ( /\ ECStepOf({"fetchResolved", "revalidateResolved"})
           /\ ~ECHas(ec.cache, k)
           /\ Len(ec.cache) = ec.config.maxSize )
           => KeysOf(ec'.cache) = (KeysOf(ec.cache) \ {Head(ecAccess)}) \cup {k}
    ]_vars

\* C19 (as claimed): an EnhancedCache get() of a held entry with
\* ttlMs < age <= ttlMs + staleWhileRevalidateMs returns the stored value,
\* awaits no fetcher, and starts a revalidation unless one is in flight.
C19_StaleWindowServedFromCache ==
  [][ LET k == ecLast'.key IN
      ( /\ ECStepOf({"get"})
        /\ ECHas(ec.cache, k)
        /\ now - ECEntry(ec.cache, k).timestamp > ec.config.ttlMs
        /\ now - ECEntry(ec.cache, k).timestamp
             <= ec.config.ttlMs + ec.config.staleWhileRevalidateMs )
        => /\ ecLast'.branch = "stale"
           /\ ecLast'.value = ECEntry(ec.cache, k).data
           /\ ecTasks'[k, "fetch"] = ecTasks[k, "fetch"]
           /\ (k \notin ec.revalidationPromises) => ecLast'.started = "revalidate"
    ]_vars

\* C20: getSync(key) and has(key) start no fetcher call and mark no entry
\* as being refreshed, whatever the state of the entry.
C20_PeekStartsNothing ==
  [][ MCStepOf({"getSync", "has"})
        => /\ mcLast'.started = "none"
           /\ \A k \in Keys : TasksOf(mcTasks', k) = TasksOf(mcTasks, k)
           /\ \A k \in Keys : mc'.cache[k].refreshPromise => mc.cache[k].refreshPromise
    ]_vars

\* getSync() has just read an entry in its stale window; nothing is in flight
C20_Witness ==
  /\ mcLast.op = "getSync"
  /\ mcLast.branch = "stale"
  /\ mc.cache[mcLast.key].present
  /\ ~mc.cache[mcLast.key].refreshPromise
  /\ TasksOf(mcTasks, mcLast.key) = 0

\* ---------------------------------------------- retryWithBackoff: claims
\* C10: when every attempt fails with a retryable error, the call ends by
\* throwing after exactly maxRetries + 1 invocations of the operation, and
\* the error thrown is the one raised by invocation maxRetries + 1.
C10_ExhaustionThrowsLastError ==
  /\ (rtAllRetryable /\ rt.pc = "thrown")
       => /\ rt.invocations = rt.config.maxRetries + 1
          /\ rt.thrown.attempt = rt.config.maxRetries + 1
          /\ rt.thrown = rt.lastError
  /\ (rtAllRetryable /\ rt.pc \in {"attempt", "sleep"})
       => rt.invocations <= rt.config.maxRetries
  /\ rtAllRetryable => rt.pc # "returned"

\* maxRetries = 3: four invocations, all retryable failures, the fourth thrown
C10_Witness ==
  /\ rtAllRetryable
  /\ rt.pc = "thrown"
  /\ rt.config.maxRetries = 3
  /\ rt.invocations = 4
  /\ rt.thrown.attempt = 4


\* C11: an attempt that fails with an error classified as non-retryable ends
\* the call: that error is thrown, the operation is not invoked again, and
\* the sleeps and retry events are those of the earlier attempts only.
C11_NonRetryableThrownAtOnce ==
  (rt.lastError # NoError /\ ~isRetryableError(rt.lastError, rt.config))
    => /\ rt.pc = "thrown"
       /\ rt.thrown = rt.lastError
       /\ rt.invocations = rt.lastError.attempt
       /\ rt.sleeps = rt.invocations - 1
       /\ rt.retryEvents = rt.invocations - 1

\* the second invocation failed with a non-retryable error, retries remaining
C11_Witness ==
  /\ rt.pc = "thrown"
  /\ rt.invocations = 2
  /\ rt.attempt < rt.config.maxRetries
  /\ ~isRetryableError(rt.thrown, rt.config)
  /\ rt.sleeps = 1

\* C12 (as claimed): after a failed attempt with retries remaining, the call
\* retries if and only if the error's status is in retryableStatusCodes or
\* one of its error kinds is in retryableErrors.
C12_RetriesIffStatusOrKind ==
  ( /\ rt.pc \in {"sleep", "thrown"}
    /\ rt.lastError.attempt = rt.invocations
    /\ rt.attempt < rt.config.maxRetries )
    => ( rt.pc = "sleep"
           <=> \/ rt.lastError.status \in rt.config.retryableStatusCodes
               \/ rt.lastError.codes \cap rt.config.retryableErrors # {} )

\* ------------------------------------------------ fetchWithRetry: claims
FWClientError(status) == status >= 400 /\ status < 500 /\ status # 429

\* every call so far was answered by a 5xx status, a timeout or a network error
FWUpstreamFailing(f) ==
  \A i \in 1..Len(f.responses) :
    \/ f.responses[i].exception \in {"AbortError", "TypeError"}
    \/ f.responses[i].status >= 500 /\ f.responses[i].status <= 599

\* C14: a response with a 4xx status other than 429 ends the call. In
\* fetchWithRetry the AppError of that status is thrown with no transport
\* call and no sleep after it, so a call whose first response is such a
\* status makes exactly one transport call whatever config.retries is; in
\* resilientFetch the retry loop throws the error of that response at once.
C14_ClientErrorNeverRetried ==
  /\ LET n == Len(fw.responses) IN
     (n > 0 /\ FWClientError(fw.responses[n].status))
       => /\ fw.pc = "thrown"
          /\ fw.thrown = AppError("API_ERROR", fw.responses[n].status)
          /\ fw.calls = n
          /\ fw.sleeps = n - 1
          /\ FWClientError(fw.responses[1].status) => fw.calls = 1
  /\ (rfLast.op = "rejected" /\ FWClientError(rfLast.retry.lastError.status))
       => /\ rfLast.outcome = "thrown"
          /\ rfLast.retry.thrown = rfLast.retry.lastError
          /\ rfLast.retry.invocations = rfLast.retry.lastError.attempt
          /\ rfLast.retry.sleeps = rfLast.retry.invocations - 1

\* fetchWithRetry with retries >= 2 threw after one transport call answered 400
C14_Witness ==
  /\ fw.pc = "thrown"
  /\ fw.retries >= 2
  /\ fw.calls = 1
  /\ fw.thrown.statusCode = 400

\* C15: against an upstream that fails every call, fetchWithRetry throws an
\* AppError after exactly retries + 1 transport calls and not before; a call
\* that returns does so with the successful response of its last transport
\* call; no call makes more than retries + 1 transport calls.
C15_BoundedAttempts ==
  /\ (FWUpstreamFailing(fw) /\ fw.pc = "thrown")
       => /\ fw.calls = fw.retries + 1
          /\ fw.thrown.name = "AppError"
  /\ (FWUpstreamFailing(fw) /\ fw.pc \in {"fetch", "sleep"}) => fw.calls <= fw.retries
  /\ FWUpstreamFailing(fw) => fw.pc # "returned"
  /\ fw.pc = "returned"
       => /\ fw.calls = Len(fw.responses)
          /\ fw.returned = fw.responses[fw.calls].status
          /\ fw.returned >= 200 /\ fw.returned <= 299
  /\ fw.pc # "parked" => (fw.calls <= fw.retries + 1 /\ fw.calls = Len(fw.responses))

\* retries = 3: a 5xx answer, a timeout, a network error and a 5xx answer,
\* then the AppError of the last one
C15_Witness ==
  /\ fw.pc = "thrown"
  /\ fw.retries = 3
  /\ fw.calls = 4
  /\ fw.responses[1].status = 500
  /\ fw.responses[2].exception = "AbortError"
  /\ fw.responses[3].exception = "TypeError"
  /\ fw.thrown = AppError("API_ERROR", 503)

\* ------------------------------------------------ resilientFetch: claims
\* Every step of resilientFetch records in rfLast what it did, so a step of
\* operation op is one with rfLast'.op = op.
RFStepOf(ops) == rfLast'.op \in ops

\* the breaker of context c is Open and its reset timeout has not elapsed
RFOpenAt(c, t) ==
  /\ circuitBreakers[c] # <<>>
  /\ circuitBreakers[c][1].state = "open"
  /\ t - circuitBreakers[c][1].lastFailureTime <= circuitBreakers[c][1].config.resetTimeoutMs

\* the call of this step runs the guarded network call: it has no cacheKey,
\* or the cache calls its loader (to fetch, or to revalidate a stale entry)
RFRunsLoader ==
  LET c == rfLast'.context
      k == rfLast'.cacheKey IN
  \/ rfLast'.branch \in {"none", "fetch"}
  \/ /\ rfLast'.branch = "stale"
     /\ (apiCaches[c] = <<>> \/ k \notin apiCaches[c][1].revalidationPromises)

\* C13: a resilientFetch call whose guarded network call meets an Open
\* breaker within its reset timeout is rejected there: no transport call is
\* made, no retry sleeps, no retry event is emitted, the breaker is left as
\* it was, and a call that awaits the network fails with the circuit-open
\* error.
C13_CircuitOpenNotRetried ==
  [][ (RFStepOf({"call"}) /\ RFOpenAt(rfLast'.context, now) /\ RFRunsLoader)
        => /\ rfLast'.guard = "rejected"
           /\ rfCalls' = rfCalls
           /\ circuitBreakers' = circuitBreakers
           /\ rfLast'.retry.pc = "not_called"
           /\ rfLast'.retry.invocations = 0
           /\ rfLast'.retry.sleeps = 0
           /\ rfLast'.retry.retryEvents = 0
           /\ rfLast'.branch \in {"none", "fetch"} => rfLast'.outcome = "circuit_open"
    ]_vars

\* a call made with retries allowed has just failed with the circuit-open error
C13_Witness ==
  /\ rfLast.op = "call"
  /\ rfLast.guard = "rejected"
  /\ rfLast.outcome = "circuit_open"
  /\ rfLast.retry.config.maxRetries > 0
  /\ rfLast.retry.invocations = 0
  /\ circuitBreakers[rfLast.context][1].state = "open"

\* C16 (as claimed): a resilientFetch call with a cacheKey whose entry has
\* age <= ttlMs, ttlMs > 0, returns the cached value and runs no guarded network call; a
\* call with a cacheKey runs it only as the cache's loader; a call without
\* cacheKey always runs it, and neither it nor its completion changes a cache.
C16_CacheInFrontOfGuardedCall ==
  [][ LET c == rfLast'.context
          k == rfLast'.cacheKey IN
      /\ ( /\ RFStepOf({"call"})
           /\ k # NoKey
           /\ apiCaches[c] # <<>>
           /\ ECHas(apiCaches[c][1].cache, k)
           /\ apiCaches[c][1].config.ttlMs > 0
           /\ now - ECEntry(apiCaches[c][1].cache, k).timestamp
                <= apiCaches[c][1].config.ttlMs )
           => /\ rfLast'.guard = "none"
              /\ rfLast'.outcome = "returned"
              /\ rfLast'.value = ECEntry(apiCaches[c][1].cache, k).data
              /\ rfCalls' = rfCalls
              /\ circuitBreakers' = circuitBreakers
      /\ (RFStepOf({"call"}) /\ k # NoKey /\ rfLast'.guard # "none")
           => rfLast'.branch \in {"fetch", "stale"}
      /\ (RFStepOf({"call"}) /\ k = NoKey)
           => /\ rfLast'.guard # "none"
              /\ apiCaches' = apiCaches
      /\ (RFStepOf({"resolved", "rejected"}) /\ k = NoKey) => apiCaches' = apiCaches
    ]_vars

\* C17: the breaker of a context, once created, stays in the Map with its
\* config and its state: its failure count is the number of guarded calls of
\* the context that failed since the last one that succeeded, whatever their
\* cacheKey; it is created by the first call of the context that runs the
\* guarded network call; and the failure that brings the count to
\* failureThreshold opens it.
C17_OneBreakerPerContext ==
  [][ \A c \in Contexts :
        /\ circuitBreakers[c] # <<>>
             => /\ circuitBreakers'[c] # <<>>
                /\ circuitBreakers'[c][1].config = circuitBreakers[c][1].config
        /\ circuitBreakers'[c] # <<>>
             => circuitBreakers'[c][1].failures = rfFailStreak'[c].n
        /\ (circuitBreakers[c] = <<>> /\ circuitBreakers'[c] # <<>>)
             => /\ RFStepOf({"call"})
                /\ rfLast'.context = c
                /\ rfLast'.guard = "admitted"
        /\ ( /\ RFStepOf({"rejected"})
             /\ rfLast'.context = c
             /\ rfLast'.outcome = "thrown"
             /\ rfFailStreak'[c].n >= circuitBreakers'[c][1].config.failureThreshold )
             => circuitBreakers'[c][1].state = "open"
    ]_vars

\* two calls under different cache keys failed and the second failure opened
\* the breaker of their context
C17_Witness ==
  /\ rfLast.op = "rejected"
  /\ rfLast.outcome = "thrown"
  /\ rfFailStreak[rfLast.context].n = 2
  /\ rfFailStreak[rfLast.context].keys = {"k1", "k2"}
  /\ circuitBreakers[rfLast.context][1].config.failureThreshold = 2
  /\ circuitBreakers[rfLast.context][1].state = "open"

\* C18 (as claimed): after a resilientFetch call, the breaker of its context
\* has the circuitBreakerConfig the call passed, and the cache of its context
\* has the cacheConfig the call passed.
C18_PassedConfigGoverns ==
  [][ LET c == rfLast'.context IN
      /\ (RFStepOf({"call"}) /\ rfLast'.guard # "none")
           => circuitBreakers'[c][1].config = rfLast'.cbConfig
      /\ (RFStepOf({"call"}) /\ rfLast'.cacheKey # NoKey)
           => apiCaches'[c][1].config = rfLast'.cacheConfig
    ]_vars

\* C21: delete(key) and clear() cancel no background refresh: every refresh
\* in flight before the call is in flight after it, in both caches, and when
\* such a refresh resolves its value is stored, so that the key is present
\* again.
C21_RemovalCancelsNoRefresh ==
  [][ /\ MCStepOf({"delete", "clear"})
           => \A k \in Keys :
                /\ RefreshesInFlight(mcTasks', k) = RefreshesInFlight(mcTasks, k)
                /\ mcTasks'[k, "load"] = mcTasks[k, "load"]
      /\ (MCStepOf({"refreshResolved"}) /\ mcLast'.branch = "orphan")
           => /\ mc'.cache[mcLast'.key].present
              /\ mc'.cache[mcLast'.key].data = mcLast'.value
      /\ ECStepOf({"clear"}) => ecTasks' = ecTasks
      /\ (ECStepOf({"revalidateResolved"}) /\ ~ECHas(ec.cache, ecLast'.key))
           => /\ ECHas(ec'.cache, ecLast'.key)
              /\ ECEntry(ec'.cache, ecLast'.key).data = ecLast'.value
    ]_vars

\* delete() or clear() has just removed an entry whose refresh is in flight
C21_Witness ==
  /\ mcLast.op \in {"delete", "clear"}
  /\ \E k \in Keys : ~mc.cache[k].present /\ mcTasks[k, "orphan"] > 0

\* ------------------------------------- CircuitBreaker: telemetry, trials
CBRejected(l) == l.op = "execute" /\ ~l.admitted
CBStateChanged(l) == l.op \in {"execute", "succeed", "fail"} /\ cb.state # l.pre.state

\* C29 (as claimed): a step of the breaker that changes its state to Open,
\* HalfOpen or Closed emits exactly the one event opened, half_open or
\* closed, a rejected call emits exactly one rejected event, and a step that
\* neither changes the state nor rejects a call emits no event.
C29_TelemetryOneToOne ==
  /\ (CBStateChanged(cbLast) /\ cb.state = "open") => cbLast.events = <<"opened">>
  /\ (CBStateChanged(cbLast) /\ cb.state = "half_open") => cbLast.events = <<"half_open">>
  /\ (CBStateChanged(cbLast) /\ cb.state = "closed") => cbLast.events = <<"closed">>
  /\ CBRejected(cbLast) => cbLast.events = <<"rejected">>
  /\ (~CBStateChanged(cbLast) /\ ~CBRejected(cbLast)) => cbLast.events = <<>>

\* C30: a call that finds the breaker Open more than resetTimeoutMs after
\* the last failure performs the transition to HalfOpen (one half_open
\* event, successCount reset to 0) and is admitted; a call that finds the
\* breaker HalfOpen is admitted as a trial, emits no event and leaves the
\* breaker, its successCount included, as it found it.
C30_TransitionOnceTrialsAdmitted ==
  /\ (cbLast.op = "execute" /\ cbLast.pre.state = "open" /\ ~WithinResetTimeout(cbLast))
       => /\ cbLast.events = <<"half_open">>
          /\ cbLast.admitted
          /\ cb = [cbLast.pre EXCEPT !.state = "half_open", !.successCount = 0]
  /\ (cbLast.op = "execute" /\ cbLast.pre.state = "half_open")
       => /\ cbLast.events = <<>>
          /\ cbLast.admitted
          /\ cb = cbLast.pre
          /\ cbInflight["half_open"] = cbLast.inflightPre["half_open"] + 1

\* a second call arrives past the reset timeout while the trial call that
\* performed the transition is in flight, and is admitted beside it
C30_Witness ==
  /\ cbLast.op = "execute"
  /\ cbLast.pre.state = "half_open"
  /\ ~WithinResetTimeout(cbLast)
  /\ cbLast.pre.successCount = 0
  /\ cbLast.inflightPre["half_open"] = 1
  /\ cbInflight["half_open"] = 2

\* ------------------------------------------------- GTFS-Realtime: claims
\* the minutes are a whole number nearest to seconds / 60
NearestMinute(minutes, seconds) == 2 * Abs(60 * minutes - seconds) <= 60

\* the trip update getTripDelay works on: the first one with tripId
GTTripIndexes == {i \in 1..Len(gt.updates) : gt.updates[i].tripId = gt.tripId}
GTTripMatched == GTTripIndexes # {}
GTTripStops ==
  gt.updates[CHOOSE i \in GTTripIndexes : \A j \in GTTripIndexes : i <= j].stopTimeUpdates
GTTripCancelled ==
  \E n \in 1..Len(GTTripStops) :
     GTTripStops[n].scheduleRelationship \in {"SKIPPED", "CANCELED"}

\* the stop-time updates getStopDelay may answer from: those with stopId, in
\* the updates with tripId when one is given
GTStopPlaces ==
  {p \in (1..Len(gt.updates)) \X (1..(MaxStops + 1)) :
     /\ p[2] <= Len(gt.updates[p[1]].stopTimeUpdates)
     /\ gt.updates[p[1]].stopTimeUpdates[p[2]].stopId = gt.stopId
     /\ gt.tripId # NoTripId => gt.updates[p[1]].tripId = gt.tripId}
GTStopMatched == GTStopPlaces # {}
\* the first of them in the order of the lists
GTStopUpdate ==
  LET p == CHOOSE p \in GTStopPlaces :
             \A q \in GTStopPlaces : p[1] < q[1] \/ (p[1] = q[1] /\ p[2] <= q[2])
  IN gt.updates[p[1]].stopTimeUpdates[p[2]]

\* C22: on a matched trip with stops none of which is SKIPPED or CANCELED,
\* getTripDelay returns, in whole minutes, the delay of a stop whose delay
\* has the largest absolute value among the trip's stops, with status
\* delayed when |minutes| >= 1 and on-time otherwise. The delay of a stop is
\* the one the function reads off the stop-time update.
C22_MaxMagnitudeDelay ==
  (gt.op = "getTripDelay" /\ GTTripMatched /\ GTTripStops # <<>> /\ ~GTTripCancelled)
    => /\ \E n \in 1..Len(GTTripStops) :
            /\ \A k \in 1..Len(GTTripStops) :
                 Abs(stopDelaySeconds(GTTripStops[k])) <= Abs(stopDelaySeconds(GTTripStops[n]))
            /\ NearestMinute(gt.result.delay, stopDelaySeconds(GTTripStops[n]))
       /\ gt.result.status = IF Abs(gt.result.delay) >= 1 THEN "delayed" ELSE "on-time"

\* stop delays [0, 300, -60] seconds give delay 5 and status delayed
C22_Witness ==
  /\ gt.op = "getTripDelay"
  /\ GTTripMatched
  /\ Len(GTTripStops) = 3
  /\ stopDelaySeconds(GTTripStops[1]) = 0
  /\ stopDelaySeconds(GTTripStops[2]) = 300
  /\ stopDelaySeconds(GTTripStops[3]) = -60
  /\ ~GTTripCancelled
  /\ gt.result = DelayInfo(5, "delayed")

\* C23: getTripDelay returns status cancelled for a matched trip one of
\* whose stop-time updates, at any position, is SKIPPED or CANCELED.
C23_AnySkippedStopCancels ==
  (gt.op = "getTripDelay" /\ GTTripMatched /\ GTTripCancelled)
    => gt.result.status = "cancelled"

\* the last of three stops is CANCELED, after a stop 5 minutes late
C23_Witness ==
  /\ gt.op = "getTripDelay"
  /\ GTTripMatched
  /\ Len(GTTripStops) = 3
  /\ stopDelaySeconds(GTTripStops[1]) = 300
  /\ GTTripStops[1].scheduleRelationship = NoRelationship
  /\ GTTripStops[2].scheduleRelationship = NoRelationship
  /\ GTTripStops[3].scheduleRelationship = "CANCELED"
  /\ gt.result.status = "cancelled"

\* the delay of a stop-time update as claimed: departure ?? arrival ?? 0
ClaimedStopDelay(stu) ==
  IF stu.departure # NoEvent THEN stu.departure[1].delay
  ELSE IF stu.arrival # NoEvent THEN stu.arrival[1].delay
  ELSE 0

\* C24 (as claimed): the delay getStopDelay reports for the matched stop is
\* that of its departure whenever it has one (a departure delay of 0
\* included), else that of its arrival when it has one, else 0.
C24_DepartureDelayFirst ==
  (gt.op = "getStopDelay" /\ GTStopMatched)
    => NearestMinute(gt.result.delay, ClaimedStopDelay(GTStopUpdate))

\* C25: getStopDelay reports the delay it takes from the matched stop as
\* whole minutes nearest to seconds / 60; its status is cancelled if the
\* stop is SKIPPED or CANCELED, else delayed if and only if the absolute
\* value of the minutes reported is at least 1, else on-time.
C25_NearestMinuteAndStatus ==
  (gt.op = "getStopDelay" /\ GTStopMatched)
    => /\ NearestMinute(gt.result.delay, stopDelaySeconds(GTStopUpdate))
       /\ gt.result.status =
            IF GTStopUpdate.scheduleRelationship \in {"SKIPPED", "CANCELED"}
            THEN "cancelled"
            ELSE IF Abs(gt.result.delay) >= 1 THEN "delayed" ELSE "on-time"

\* a stop 40 seconds early is reported as one minute early and delayed
C25_Witness ==
  /\ gt.op = "getStopDelay"
  /\ GTStopMatched
  /\ stopDelaySeconds(GTStopUpdate) = -40
  /\ gt.result = DelayInfo(-1, "delayed")

\* C26: getStopDelay returns null exactly when no stop-time update has the
\* stopId (within the updates of the tripId, when one is given), and
\* getTripDelay returns null exactly when no update has the tripId or the
\* first that has it has an empty list of stop-time updates.
C26_NullIffUnmatched ==
  /\ gt.op = "getStopDelay" => (gt.result.status = "null" <=> ~GTStopMatched)
  /\ gt.op = "getTripDelay"
       => (gt.result.status = "null" <=> (~GTTripMatched \/ GTTripStops = <<>>))

\* the stop is in the list, on another trip than the one asked for
C26_Witness ==
  /\ gt.op = "getStopDelay"
  /\ gt.tripId = "T1"
  /\ \E i \in 1..Len(gt.updates) :
       /\ gt.updates[i].tripId = "T2"
       /\ \E n \in 1..Len(gt.updates[i].stopTimeUpdates) :
            gt.updates[i].stopTimeUpdates[n].stopId = gt.stopId
  /\ ~GTStopMatched
  /\ gt.result.status = "null"

\* a call of fetchTripUpdates that got a response body to decode
GTDecoded ==
  /\ gt.origin = "transport"
  /\ gt.op # "none"
  /\ gt.input.apiKey
  /\ gt.input.thrown = NoAppError

\* C27: a well-formed feed without entities gives a success response with an
\* empty list, a buffer the decoder fails on gives an error response
\* recorded as PARSE_ERROR, and no success response comes from a decode
\* failure.
C27_EmptyFeedIsNotDecodeFailure ==
  /\ (GTDecoded /\ gt.input.buffer = FeedBuffer(<<>>))
       => (~gt.response.error /\ gt.response.data = <<>>)
  /\ (GTDecoded /\ ~gt.input.buffer.wellFormed)
       => (gt.response.error /\ gt.response.errorType = "PARSE_ERROR")
  /\ (gt.origin = "transport" /\ gt.op # "none" /\ ~gt.response.error)
       => (GTDecoded /\ gt.input.buffer.wellFormed)

\* the body could not be decoded and the response is a parse error
C27_Witness ==
  /\ GTDecoded
  /\ gt.op = "fetchTripUpdates"
  /\ ~gt.input.buffer.wellFormed
  /\ gt.response.error
  /\ gt.response.errorType = "PARSE_ERROR"

\* the feed decoded has a trip update of tripId one of whose
\* stop_time_update messages is SKIPPED
GTFeedSkips(tripId) ==
  /\ GTDecoded
  /\ gt.input.buffer.wellFormed
  /\ \E i \in 1..Len(gt.input.buffer.entity) :
       LET e == gt.input.buffer.entity[i] IN
       /\ e.tripUpdate # NoTripUpdate
       /\ e.tripUpdate[1].trip.tripId = tripId
       /\ \E n \in 1..Len(e.tripUpdate[1].stopTimeUpdate) :
            e.tripUpdate[1].stopTimeUpdate[n].scheduleRelationship
              = ScheduleRelationship.SKIPPED

\* C28 (as claimed): getTripDelay(updates, T) on the updates fetchTripUpdates
\* made of a feed in which a stop_time_update of trip T is SKIPPED returns
\* status cancelled.
C28_DecodedSkipCancels ==
  (gt.op = "getTripDelay" /\ GTFeedSkips(gt.tripId))
    => gt.result.status = "cancelled"

\* -------------------------------- CircuitBreaker: late successes, rejections
\* C37 (as claimed): the success of a call admitted while the breaker was
\* Closed, recorded while the breaker is HalfOpen, changes neither
\* successCount nor the state.
C37_OnlyTrialSuccessesCount ==
  (cbLast.op = "succeed" /\ cbLast.admittedIn = "closed" /\ cbLast.pre.state = "half_open")
    => /\ cb.successCount = cbLast.pre.successCount
       /\ cb.state = cbLast.pre.state

\* C39: a call rejected while the breaker is Open leaves state, failures,
\* successCount and lastFailureTime as they were, so the time from which a
\* call is admitted as a trial is the same after the rejection as before.
C39_RejectionChangesNothing ==
  (cbLast.op = "execute" /\ ~cbLast.admitted)
    => /\ cbLast.pre.state = "open"
       /\ cb.state = cbLast.pre.state
       /\ cb.failures = cbLast.pre.failures
       /\ cb.successCount = cbLast.pre.successCount
       /\ cb.lastFailureTime = cbLast.pre.lastFailureTime

\* a call is rejected later than the failure that opened the breaker, and
\* lastFailureTime is still the time of that failure
C39_Witness ==
  /\ cbLast.op = "execute"
  /\ ~cbLast.admitted
  /\ cbLast.at > cbLast.pre.lastFailureTime
  /\ cb.lastFailureTime = cbLast.pre.lastFailureTime
  /\ cb.state = "open"

\* ------------------------------------------- retryWithBackoff: bookkeeping
\* C32: within one retryWithBackoff call every backoff sleep goes with one
\* retry event; while the loop runs each invocation so far that failed was
\* followed by one of each, and once the call has returned or thrown both
\* numbers equal the number of invocations minus one: nothing follows the
\* final attempt.
C32_SleepsAndEventsOneLessThanInvocations ==
  (rt.pc # "parked") =>
    /\ rt.sleeps = rt.retryEvents
    /\ rt.pc \in {"attempt", "sleep"} => rt.sleeps = rt.invocations
    /\ rt.pc \in {"returned", "thrown"} => rt.sleeps = rt.invocations - 1
    /\ rt.invocations <= rt.config.maxRetries + 1

\* the call ended by exhausting its retries after more than one backoff
C32_Witness ==
  /\ rt.pc = "thrown"
  /\ rt.invocations = rt.config.maxRetries + 1
  /\ rt.invocations >= 3
  /\ rt.sleeps = rt.invocations - 1
  /\ rt.retryEvents = rt.invocations - 1

\* ------------------------------------------------ caches: failures and size
\* C34: when the fetcher awaited by a get() on a missing or expired key
\* rejects, the get() ends without a value and the cache is what it was:
\* no entry is stored or replaced, in either cache.
C34_FailedLoadStoresNothing ==
  [][ /\ MCStepOf({"loadRejected"})
           => /\ mc' = mc
              /\ mcLast'.value = 0
              /\ mcTasks' = Finished(mcTasks, mcLast'.key, "load")
      /\ ECStepOf({"fetchRejected"})
           => /\ ec' = ec
              /\ ecLast'.value = 0
              /\ ecTasks' = [ecTasks EXCEPT ![ecLast'.key, "fetch"] = @ - 1]
    ]_vars

\* a get() of MemoryCache on an expired key has been rejected by its
\* fetcher; the expired entry is still the one stored
C34_Witness ==
  /\ mcLast.op = "loadRejected"
  /\ mc.cache[mcLast.key].present
  /\ isExpired(mc.cache[mcLast.key], now)
  /\ mcTasks = NoTasks

\* C35 (as claimed): MemoryCache never holds more than maxSize entries.
C35_AtMostMaxSizeEntries ==
  MCActive => CacheSize(mc.cache) <= mc.maxSize

\* C40 (as claimed): when EnhancedCache stores a value for a key it already
\* holds, every other key it held is still held afterwards.
C40_RewriteEvictsNothing ==
  [][ (ECStepOf({"fetchResolved", "revalidateResolved"}) /\ ECHas(ec.cache, ecLast'.key))
        => \A k \in KeysOf(ec.cache) : ECHas(ec'.cache, k)
    ]_vars

\* ------------------------------------------- resilientFetch: parser failure
\* C33 (as claimed): when the parser rejects, the resilientFetch call ends
\* there: its retry loop throws the parser's error, the call is no longer in
\* flight and the transport is not invoked for it again.
C33_ParserFailureIsTerminal ==
  (rfLast.op = "parserFailed")
     => /\ rfLast.outcome = "thrown"
        /\ rfLast.retry.pc = "thrown"
        /\ rfLast.retry.thrown = rfLast.retry.lastError
        /\ rfLast.retry.lastError.attempt = rfLast.retry.invocations

\* ------------------------------------- resilientFetch: failures per call
\* the failure count of the breaker of a context (0 before it is created)
RFFailures(breakers, c) == IF breakers[c] = <<>> THEN 0 ELSE breakers[c][1].failures

\* C38 (as claimed): no step of a resilientFetch call changes the failure
\* count of its breaker by more than one.
C38_FailureCountChangesByAtMostOne ==
  [][ \A c \in Contexts :
        /\ RFFailures(circuitBreakers', c) <= RFFailures(circuitBreakers, c) + 1
        /\ RFFailures(circuitBreakers', c) >= RFFailures(circuitBreakers, c) - 1
    ]_vars

\* C38 (amended): a resilientFetch call raises the failure count of its
\* breaker by at most one, and only when its retry loop has thrown; an
\* attempt that fails and is retried leaves the breaker as it is; the count
\* goes down only when a call succeeds, which resets it to zero.
C38_OneFailurePerFailedCall ==
  [][ \A c \in Contexts :
        LET before == RFFailures(circuitBreakers, c)
            after == RFFailures(circuitBreakers', c) IN
        /\ after <= before + 1
        /\ after = before + 1
             => /\ rfLast'.op \in {"rejected", "parserFailed"}
                /\ rfLast'.outcome = "thrown"
                /\ rfLast'.retry.pc = "thrown"
        /\ after < before => (rfLast'.op = "resolved" /\ after = 0)
        /\ rfLast'.outcome = "retrying" => circuitBreakers' = circuitBreakers
    ]_vars

\* the first call of a context has failed after two transport invocations,
\* and its breaker has counted one failure
C38_Witness ==
  /\ rfLast.op = "rejected"
  /\ rfLast.outcome = "thrown"
  /\ rfLast.retry.invocations = 2
  /\ rfStarted = 1
  /\ RFFailures(circuitBreakers, rfLast.context) = 1

\* ---------------------------------------------- caches: in-flight markers
\* the key is marked as being refreshed
MCMarked(key) == mc.cache[key].present /\ mc.cache[key].refreshPromise
ECMarked(key) == key \in ec.revalidationPromises

C36_NoRegression ==
  ~ecOrder.regressed

====
